---- MODULE Spec2Model ----
(***************************************************************************)
(* Screen Dimmer (src/dimmer.pyw): the controller DimmerControl, its       *)
(* overlays, its timers, the state file and the global-hotkey listener.    *)
(*                                                                         *)
(* The controller is the record `self`; every handler of the source is an  *)
(* operator from a controller record to the controller record it leaves    *)
(* behind, so that a handler calling another handler is a composition.     *)
(* While a handler runs the record also carries the state file it writes   *)
(* (state_file) and whether an exception is propagating (exc).             *)
(*                                                                         *)
(* Times of day (QTime) are seconds since midnight, instants (datetime)    *)
(* are seconds since midnight of day 0.  A colour is <<r, g, b>>; the      *)
(* Python value None is NoTint for a colour and NoTime for a time.         *)
(***************************************************************************)
EXTENDS Integers, Sequences, FiniteSets, TLC

VARIABLES
    alive,        \* the process is running
    self,         \* the DimmerControl object (attributes, overlays, timers)
    state_file,   \* content of Config.STATE_FILE on disk, or NoFile
    screens,      \* len(QApplication.screens())
    clock,        \* index of the current instant in Timeline
    queue,        \* calls posted to the event loop by the hotkey listener
    deferred,     \* QTimer.singleShot restores posted by _load_saved_state
    msecs,        \* QDateTime.currentMSecsSinceEpoch(), from the first launch
    profiles_file, \* content of Config.PROFILES_FILE on disk, or NoFile
    ev            \* the last step: its handler and the thread that ran it

vars ==
    <<alive, self, state_file, screens, clock, queue, deferred, msecs,
      profiles_file, ev>>

----------------------------------------------------------------------------
(* Bounds and input domains                                                *)

MaxQueue ==
    2

MaxInstant ==
    6

MaxScreens ==
    2

SliderValues ==
    {25, 90}

SecondSliderValues ==
    {25, 50}

IntensityValues ==
    {0, 50, 100}

TimerMinutes ==
    {1, 5}

CustomDims ==
    {40}

\* number of steps of the millisecond clock
MaxMsTicks ==
    4

\* animation frames of 30 ms the frame clock passes through
MaxFrames ==
    20

\* values the rain interval spin box is set to (minutes, range 1..60)
RainIntervals ==
    {1, 10}

\* values the rain duration spin box is set to (seconds, range 1..30)
RainDurations ==
    {1, 7}

\* screen.geometry() of every screen, in pixels
ScreenWidth ==
    250

ScreenHeight ==
    40

\* the time that passes in one step of the millisecond clock
MsStep ==
    2000

----------------------------------------------------------------------------
(* Program constants                                                       *)

DEFAULT_DIM ==
    25

DefaultIntensity ==
    50

DefaultScheduleDim ==
    70

DefaultRainInterval ==
    10

DefaultRainDuration ==
    7

SliderMax ==
    95

\* blue_intensity.setRange(0, 100)
IntensityMax ==
    100

DaySeconds ==
    86400

\* rain_timer.start(30)
RainTickMs ==
    30

NoTime ==
    0 - 1

NoTint ==
    <<>>

NoFile ==
    [exists |-> FALSE]

QTime(h, m) ==
    h * 3600 + m * 60

Min(a, b) ==
    IF a <= b THEN a ELSE b

Max(a, b) ==
    IF a >= b THEN a ELSE b

(* The instants the clock passes through, in order (day 0, then day 1).    *)
Timeline ==
    << QTime(17, 0) + 30,
       QTime(17, 3) + 30,
       QTime(17, 6) + 30,
       QTime(19, 0) + 30,
       QTime(23, 30) + 30,
       DaySeconds + QTime(2, 0) + 30,
       DaySeconds + QTime(7, 0) + 30,
       DaySeconds + QTime(12, 0) + 30,
       DaySeconds + QTime(20, 0) + 30,
       DaySeconds + QTime(22, 0),
       2 * DaySeconds + QTime(6, 0),
       2 * DaySeconds + QTime(18, 0) >>

\* datetime.now(), in seconds
Now ==
    Timeline[clock]

\* QTime.currentTime(), in seconds since midnight
CurrentTime ==
    Now % DaySeconds

----------------------------------------------------------------------------
(* DimmerOverlay                                                           *)

\* self._opacity_animation = None
NoAnimation ==
    0 - 1

\* the window opacity while a QPropertyAnimation drives it from its start
\* value to its end value
InTransition ==
    0 - 2

\* DimmerOverlay.__init__: opacity 0, black, click-through; an animation is
\* known by its end value, in_flight holds the animations that run
NewOverlay ==
    [pct |-> 0, tint |-> NoTint, driven |-> FALSE, click_through |-> TRUE,
     _current_opacity |-> 0, windowOpacity |-> 0,
     _opacity_animation |-> NoAnimation, in_flight |-> {}]

\* one, in the millionths opacities are counted in
Unit ==
    1000000

\* (n / 15) ** 1.2 for n = 1..15, in millionths, rounded down
Pow12_15 ==
    << 38787, 89110, 144955, 204721, 267580, 333021, 400689, 470325,
       541728, 614738, 689226, 765081, 842214, 920543, 1000000 >>

\* (n / 20) ** 1.4 for n = 1..20, in millionths, rounded down
Pow14_20 ==
    << 15085, 39810, 70230, 105061, 143587, 185340, 229982, 277257, 326962,
       378929, 433019, 489115, 547115, 606928, 668475, 731688, 796501,
       862858, 930707, 1000000 >>

\* (n / 25) ** 1.6 for n = 1..25, in millionths, rounded down
Pow16_25 ==
    << 5798, 17576, 33627, 53283, 76146, 101938, 130452, 161525, 195022,
       230831, 268858, 309019, 351241, 395458, 441613, 489652, 539528,
       591196, 644616, 699751, 756566, 815027, 875105, 936772, 1000000 >>

\* (n / 20) ** 2.5 for n = 1..20, in millionths, rounded down
Pow25_20 ==
    << 559, 3162, 8714, 17888, 31250, 49295, 72471, 101192, 135841, 176776,
       224340, 278854, 340630, 409963, 487139, 572433, 666112, 768433,
       879648, 1000000 >>

\* (n / 20) ** 1.2 for n = 1..20, in millionths, rounded down
Pow12_20 ==
    << 27464, 63095, 102638, 144955, 189464, 235800, 283714, 333021,
       383579, 435275, 488017, 541728, 596342, 651804, 708065, 765081,
       822815, 881233, 940304, 1000000 >>

\* (n / 45) ** 1.4 for n = 1..45, in millionths, rounded down
Pow14_45 ==
    << 4847, 12792, 22566, 33758, 46138, 59554, 73899, 89089, 105061,
       121759, 139140, 157165, 175801, 195021, 214798, 235109, 255935,
       277257, 299059, 321324, 344040, 367192, 390770, 414761, 439155,
       463943, 489115, 514663, 540579, 566855, 593483, 620458, 647771,
       675418, 703392, 731688, 760299, 789222, 818451, 847981, 877808,
       907928, 938335, 969027, 1000000 >>

\* normalized = n / d, in millionths
Normalized(n, d) ==
    (n * Unit) \div d

\* base + x * span, with base and span in hundredths and x in millionths
Curve(base, x, span) ==
    base * (Unit \div 100) + (x * span) \div 100

\* the branch of set_dimming taken with a colour, for a clamped percent
TintedOpacity(opacity) ==
    IF opacity <= 12
    THEN opacity * (Unit \div 100)
    ELSE IF opacity <= 15
    THEN (opacity * 2) * (Unit \div 100)
    ELSE IF opacity <= 30
    THEN Curve(30, Normalized(opacity - 15, 15), 20)
    ELSE IF opacity <= 50
    THEN Curve(50, Pow12_20[opacity - 30], 15)
    ELSE Curve(65, Pow14_45[opacity - 50], 25)

\* the branch of set_dimming taken without a colour, for a clamped percent
BlackOpacity(opacity) ==
    IF opacity <= 5
    THEN (opacity * 4) * (Unit \div 100)
    ELSE IF opacity <= 15
    THEN Curve(20, Normalized(opacity - 5, 10), 20)
    ELSE IF opacity <= 30
    THEN Curve(40, Pow12_15[opacity - 15], 25)
    ELSE IF opacity <= 50
    THEN Curve(65, Pow14_20[opacity - 30], 15)
    ELSE IF opacity <= 75
    THEN Curve(80, Pow16_25[opacity - 50], 12)
    ELSE Curve(92, Pow25_20[opacity - 75], 7)

\* the first branch of the black curve applied to the unclamped percent,
\* without the final clamp
actual_opacity_unclamped(opacity, color) ==
    (opacity * 4) * (Unit \div 100)

\* the branch for a colour applied to every clamped percent up to 30
actual_opacity_curved(opacity, color) ==
    LET o == Max(0, Min(SliderMax, opacity))
    IN  IF color # NoTint /\ o <= 30
        THEN Curve(0, Normalized(o, 15), 30)
        ELSE Max(0, Min(99 * (Unit \div 100),
                        IF color # NoTint THEN TintedOpacity(o)
                        ELSE BlackOpacity(o)))

\* the black curve without its last segment
actual_opacity_flat(opacity, color) ==
    LET o == Max(0, Min(SliderMax, opacity))
    IN  IF color # NoTint
        THEN TintedOpacity(o)
        ELSE BlackOpacity(Min(o, 75)) - (IF o > 75 THEN o ELSE 0)

\* actual_opacity of DimmerOverlay.set_dimming, in millionths: the percent is
\* clamped to [0, 95], the curve of the branch applied, and the result
\* clamped to [0.0, 0.99]
actual_opacity(opacity, color) ==
    LET o == Max(0, Min(SliderMax, opacity))
    IN  Max(0, Min(99 * (Unit \div 100),
                   IF color # NoTint THEN TintedOpacity(o) ELSE BlackOpacity(o)))

\* DimmerOverlay.set_dimming: the percent is clamped to [0, 95]; the window is
\* painted with the colour when one is given and black otherwise
\* a set_dimming that leaves the animation in progress running
set_dimming_not_stopping(o, opacity, color) ==
    [o EXCEPT !.pct = Max(0, Min(SliderMax, opacity)),
              !.tint = color,
              !.driven = TRUE,
              !.in_flight = @ \cup {actual_opacity(opacity, color)},
              !._opacity_animation = actual_opacity(opacity, color),
              !.windowOpacity = InTransition,
              !._current_opacity = actual_opacity(opacity, color)]

\* DimmerOverlay.set_dimming: the percent is clamped to [0, 95]; the window is
\* painted with the colour when one is given and black otherwise; the
\* animation in progress is stopped and a new one started towards the
\* opacity asked for
set_dimming(o, opacity, color) ==
    [o EXCEPT !.pct = Max(0, Min(SliderMax, opacity)),
              !.tint = color,
              !.driven = TRUE,
              !.in_flight = (@ \ {o._opacity_animation})
                                \cup {actual_opacity(opacity, color)},
              !._opacity_animation = actual_opacity(opacity, color),
              !.windowOpacity = InTransition,
              !._current_opacity = actual_opacity(opacity, color)]

\* a running animation reaches its end value: the window has that opacity
\* and the slot of finished runs, setattr(self, '_current_opacity', ...)
animation_finished(o, end_value) ==
    [o EXCEPT !.in_flight = @ \ {end_value},
              !.windowOpacity = end_value,
              !._current_opacity = end_value]

----------------------------------------------------------------------------
(* ProfileManager                                                          *)

\* the dataclass Profile(dimming, blue_light, blue_intensity)
Profile(dimming, blue_light, blue_intensity) ==
    <<dimming, blue_light, blue_intensity>>

\* dataclasses.asdict of a Profile, as json.dump writes it
asdict(p) ==
    [dimming |-> p[1], blue_light |-> p[2], blue_intensity |-> p[3]]

\* Profile(**v) of a JSON object
ProfileOf(v) ==
    Profile(v.dimming, v.blue_light, v.blue_intensity)

\* ProfileManager._get_defaults
_get_defaults ==
    [name \in {"Night Mode", "Reading", "Gaming", "Movie"} |->
        CASE name = "Night Mode" -> Profile(85, TRUE, 60)
          [] name = "Reading" -> Profile(60, FALSE, 0)
          [] name = "Gaming" -> Profile(50, FALSE, 0)
          [] name = "Movie" -> Profile(80, TRUE, 30)]

\* the profiles file json.dump writes for a dictionary of profiles
ProfilesFile(profiles) ==
    [exists |-> TRUE,
     data |-> [name \in DOMAIN profiles |-> asdict(profiles[name])]]

\* a profiles file that is not valid JSON
MalformedProfiles ==
    [exists |-> TRUE, malformed |-> TRUE]

\* ProfileManager.save: nothing is written unless _cache_dirty is set
ProfileManager_save(pm, file) ==
    IF ~ pm._cache_dirty
    THEN [pm |-> pm, file |-> file]
    ELSE [pm |-> [pm EXCEPT !._cache_dirty = FALSE],
          file |-> ProfilesFile(pm._profiles)]

\* ProfileManager.load, from the state __init__ leaves
ProfileManager_load(pm, file) ==
    IF file.exists /\ "malformed" \notin DOMAIN file
    THEN [pm |-> [pm EXCEPT !._profiles =
                     [name \in DOMAIN file.data |-> ProfileOf(file.data[name])]],
          file |-> file]
    ELSE ProfileManager_save([pm EXCEPT !._profiles = _get_defaults], file)

\* ProfileManager.__init__
ProfileManager_init(file) ==
    ProfileManager_load([_profiles |-> <<>>, _cache_dirty |-> FALSE], file)

----------------------------------------------------------------------------
(* DimmerControl.__init__ and the state a handler works on                 *)

NoOverlays ==
    [i \in {} |-> NewOverlay]

\* DimmerControl.__init__ followed by _init_ui: the attribute
\* second_display_blue_intensity is left bound to the QSlider widget
InitSelf ==
    [ dimmer_active |-> FALSE,
      current_dim |-> DEFAULT_DIM,
      dim_slider |-> DEFAULT_DIM,
      blue_light_active |-> FALSE,
      blue_intensity |-> DefaultIntensity,
      blue_intensity_enabled |-> FALSE,
      schedule_enabled |-> FALSE,
      toggle_in_progress |-> FALSE,
      schedule_toggle_in_progress |-> FALSE,
      start_time |-> NoTime,
      end_time |-> NoTime,
      schedule_dim_value |-> DefaultScheduleDim,
      schedule_time_set |-> FALSE,
      timer_active |-> FALSE,
      timer_minutes |-> 0,
      timer_end_time |-> NoTime,
      blinker_active |-> FALSE,
      emoji_blink_enabled |-> FALSE,
      text_blink_enabled |-> TRUE,
      rain_interval_minutes |-> DefaultRainInterval,
      rain_duration_seconds |-> DefaultRainDuration,
      second_display_enabled |-> FALSE,
      second_display_dim |-> DEFAULT_DIM,
      second_display_slider |-> DEFAULT_DIM,
      second_display_slider_enabled |-> FALSE,
      second_display_blue_light |-> FALSE,
      second_display_blue_check_enabled |-> FALSE,
      second_display_blue_intensity |-> DefaultIntensity,
      second_display_blue_intensity_is_widget |-> TRUE,
      second_display_blue_intensity_widget |-> DefaultIntensity,
      second_display_blue_intensity_widget_enabled |-> FALSE,
      overlays |-> NoOverlays,
      schedule_timer |-> FALSE,
      time_remaining_timer |-> FALSE,
      timer_timer |-> FALSE,
      blinker_timer |-> FALSE,
      blinker_timer_interval |-> 0,
      blinker_countdown_timer |-> FALSE,
      rain_overlays |-> NoOverlays,
      profile_manager |-> ProfileManager_init(NoFile).pm,
      tray_message |-> "",
      tray_text |-> "",
      time_remaining_label |-> [text |-> "No schedule set", remaining_seconds |-> 0],
      warning_box |-> "" ]

\* the record a handler starts from: the controller, the file on disk, no
\* exception propagating
Enter ==
    self @@ [state_file |-> state_file, exc |-> FALSE]

\* the controller attributes of a handler's result
Attrs(c) ==
    [f \in DOMAIN InitSelf |-> c[f]]

\* an exception leaves the current handler
Raise(c) ==
    [c EXCEPT !.exc = TRUE]

\* QTime.toString('HH:mm')
toString(t) ==
    IF t = NoTime THEN <<>> ELSE << t \div 3600, (t % 3600) \div 60 >>

\* StateManager.save_state: the whole file is rewritten from the attributes
save_state(c) ==
    [ exists |-> TRUE,
      current_dim |-> c.current_dim,
      dimmer_active |-> c.dimmer_active,
      blue_light_active |-> c.blue_light_active,
      blue_intensity |-> c.blue_intensity,
      second_display_enabled |-> c.second_display_enabled,
      second_display_dim |-> c.second_display_dim,
      second_display_blue_light |-> c.second_display_blue_light,
      second_display_blue_intensity |->
          IF c.second_display_blue_intensity_is_widget
          THEN c.second_display_blue_intensity_widget
          ELSE c.second_display_blue_intensity,
      schedule_enabled |-> c.schedule_enabled,
      schedule_time_set |-> c.schedule_time_set,
      schedule_dim_value |-> c.schedule_dim_value,
      start_time |-> toString(c.start_time),
      end_time |-> toString(c.end_time),
      blinker_active |-> c.blinker_active,
      emoji_blink_enabled |-> c.emoji_blink_enabled,
      text_blink_enabled |-> c.text_blink_enabled,
      rain_interval_minutes |-> c.rain_interval_minutes,
      rain_duration_seconds |-> c.rain_duration_seconds ]

\* DimmerControl._save_state
_save_state(c) ==
    [c EXCEPT !.state_file = save_state(c)]

\* tray_icon.showMessage(title, ...)
showMessage(c, title) ==
    [c EXCEPT !.tray_message = title, !.tray_text = ""]

\* tray_icon.showMessage with the status text its body ends with
showMessageText(c, title, status_text) ==
    [c EXCEPT !.tray_message = title, !.tray_text = status_text]

----------------------------------------------------------------------------
(* Overlay helpers                                                         *)

\* DimmerControl._get_overlay_for_screen: the overlay is created when the
\* screen exists and has none
_get_overlay_for_screen(c, screen_index) ==
    IF screen_index \in DOMAIN c.overlays
    THEN c
    ELSE IF screen_index < screens
         THEN [c EXCEPT !.overlays = (screen_index :> NewOverlay) @@ @]
         ELSE c

\* DimmerControl._close_overlay_for_screen
_close_overlay_for_screen(c, screen_index) ==
    [c EXCEPT !.overlays =
        [i \in (DOMAIN @) \ {screen_index} |-> @[i]]]

\* DimmerControl._get_enabled_screens
_get_enabled_screens(c) ==
    IF c.second_display_enabled /\ screens > 1 THEN {0, 1} ELSE {0}

\* DimmerControl._apply_dimming_to_screen
_apply_dimming_to_screen(c, screen_index, opacity, color) ==
    LET d == _get_overlay_for_screen(c, screen_index)
    IN  IF screen_index \in DOMAIN d.overlays
        THEN [d EXCEPT !.overlays[screen_index] = set_dimming(@, opacity, color)]
        ELSE d

\* DimmerControl._calculate_blue_light_color: int() truncates, and for
\* intensity in 0..100 int(255 - intensity * 0.55) is 255 less the quotient
\* rounded up
_calculate_blue_light_color_rounded(intensity) ==
    IF intensity = 0
    THEN <<255, 255, 255>>
    ELSE << 255,
            Max(200, 255 - ((intensity * 55 + 50) \div 100)),
            Max(150, 255 - ((intensity * 105 + 50) \div 100)) >>

_calculate_blue_light_color(intensity) ==
    IF intensity = 0
    THEN <<255, 255, 255>>
    ELSE << 255,
            Max(200, 255 - ((intensity * 55 + 99) \div 100)),
            Max(150, 255 - ((intensity * 105 + 99) \div 100)) >>

\* a tint-only level of up to 20 percent
TintOnlyOpacity_wide(intensity) ==
    IF intensity = 0 THEN 0 ELSE (intensity * 20) \div 100

\* the tint-only level: 0 at intensity 0, else int(intensity * 0.12)
TintOnlyOpacity(intensity) ==
    IF intensity = 0 THEN 0 ELSE (intensity * 12) \div 100

\* an _update_blue_light that closes the primary overlay whenever the tint
\* is Off
_update_blue_light_closing(c) ==
    IF c.blue_light_active
    THEN LET d == _get_overlay_for_screen(c, 0)
             intensity == d.blue_intensity
             color == _calculate_blue_light_color(intensity)
         IN  IF 0 \in DOMAIN d.overlays
             THEN IF d.dimmer_active
                  THEN [d EXCEPT !.overlays[0] =
                            set_dimming(@, d.current_dim, color)]
                  ELSE [d EXCEPT !.overlays[0] =
                            set_dimming(@, TintOnlyOpacity(intensity), color)]
             ELSE d
    ELSE _close_overlay_for_screen(c, 0)

\* DimmerControl._update_blue_light
_update_blue_light(c) ==
    IF c.blue_light_active
    THEN LET d == _get_overlay_for_screen(c, 0)
             intensity == d.blue_intensity
             color == _calculate_blue_light_color(intensity)
         IN  IF 0 \in DOMAIN d.overlays
             THEN IF d.dimmer_active
                  THEN [d EXCEPT !.overlays[0] =
                            set_dimming(@, d.current_dim, color)]
                  ELSE [d EXCEPT !.overlays[0] =
                            set_dimming(@, TintOnlyOpacity(intensity), color)]
             ELSE d
    ELSE IF ~ c.dimmer_active
         THEN _close_overlay_for_screen(c, 0)
         ELSE _apply_dimming_to_screen(c, 0, c.current_dim, NoTint)

\* DimmerControl._update_second_display.  While the attribute
\* second_display_blue_intensity is still the QSlider, computing the colour
\* raises TypeError
_update_second_display(c) ==
    IF ~ c.second_display_enabled
    THEN c
    ELSE LET d == _get_overlay_for_screen(c, 1)
             intensity == d.second_display_blue_intensity
             color == _calculate_blue_light_color(intensity)
         IN  IF 1 \notin DOMAIN d.overlays
             THEN d
             ELSE IF d.second_display_blue_light
                  THEN IF d.second_display_blue_intensity_is_widget
                       THEN Raise(d)
                       ELSE IF d.dimmer_active
                            THEN [d EXCEPT !.overlays[1] =
                                      set_dimming(@, d.second_display_dim, color)]
                            ELSE [d EXCEPT !.overlays[1] =
                                      set_dimming(@, TintOnlyOpacity(intensity), color)]
                  ELSE [d EXCEPT !.overlays[1] =
                            set_dimming(@, d.second_display_dim, NoTint)]

----------------------------------------------------------------------------
(* Dimmer toggle                                                           *)

\* _toggle_dimmer, branch `if not self.dimmer_active`
_toggle_dimmer_on(c) ==
    LET enabled_screens == _get_enabled_screens(c)
        s0 == IF c.blue_light_active
              THEN _update_blue_light(c)
              ELSE _apply_dimming_to_screen(c, 0, c.current_dim, NoTint)
        s1 == IF 1 \in enabled_screens /\ s0.second_display_enabled
              THEN _update_second_display(s0)
              ELSE s0
    IN  IF s1.exc
        THEN s1
        ELSE _save_state(showMessage([s1 EXCEPT !.dimmer_active = TRUE],
                                     "Dimmer Activated"))

\* a turn-off that closes every enabled display's overlay, tint or no tint
_toggle_dimmer_off_closing(c) ==
    LET s0 == _close_overlay_for_screen(c, 0)
        s1 == IF 1 \in _get_enabled_screens(c)
              THEN _close_overlay_for_screen(s0, 1)
              ELSE s0
    IN  showMessage([s1 EXCEPT !.dimmer_active = FALSE], "Dimmer Deactivated")

\* _toggle_dimmer, branch `else` (the state is not saved on this branch)
_toggle_dimmer_off(c) ==
    LET enabled_screens == _get_enabled_screens(c)
        s0 == IF ~ c.blue_light_active
              THEN _close_overlay_for_screen(c, 0)
              ELSE _apply_dimming_to_screen(c, 0,
                       TintOnlyOpacity(c.blue_intensity),
                       _calculate_blue_light_color(c.blue_intensity))
        s1 == IF 1 \in enabled_screens
              THEN IF ~ s0.second_display_blue_light
                   THEN _close_overlay_for_screen(s0, 1)
                   ELSE IF s0.second_display_blue_intensity_is_widget
                        THEN Raise(s0)
                        ELSE _apply_dimming_to_screen(s0, 1,
                                 TintOnlyOpacity(s0.second_display_blue_intensity),
                                 _calculate_blue_light_color(
                                     s0.second_display_blue_intensity))
              ELSE s0
    IN  IF s1.exc
        THEN s1
        ELSE showMessage([s1 EXCEPT !.dimmer_active = FALSE],
                         "Dimmer Deactivated")

\* a toggle without the guard's early return
_toggle_dimmer_unguarded(c) ==
    LET c0 == [c EXCEPT !.toggle_in_progress = TRUE]
        r == IF ~ c0.dimmer_active
             THEN _toggle_dimmer_on(c0)
             ELSE _toggle_dimmer_off(c0)
    IN  [r EXCEPT !.toggle_in_progress = FALSE]

\* DimmerControl._toggle_dimmer: the guard, the transition, `finally`
_toggle_dimmer(c) ==
    IF c.toggle_in_progress
    THEN c
    ELSE LET c0 == [c EXCEPT !.toggle_in_progress = TRUE]
             r == IF ~ c0.dimmer_active
                  THEN _toggle_dimmer_on(c0)
                  ELSE _toggle_dimmer_off(c0)
         IN  [r EXCEPT !.toggle_in_progress = FALSE]

----------------------------------------------------------------------------
(* Slider and checkbox handlers                                            *)

\* DimmerControl._on_dim_changed (slot of dim_slider.valueChanged)
_on_dim_changed(c, value) ==
    LET d == _save_state([c EXCEPT !.current_dim = value])
    IN  IF d.dimmer_active
        THEN IF d.blue_light_active
             THEN _update_blue_light(d)
             ELSE _apply_dimming_to_screen(d, 0, value, NoTint)
        ELSE d

\* dim_slider.setValue: the value is kept in the slider's range 0..95 and
\* valueChanged is emitted only when the value changes
dim_slider_setValue(c, v) ==
    LET value == Max(0, Min(SliderMax, v))
    IN  IF value = c.dim_slider
        THEN c
        ELSE _on_dim_changed([c EXCEPT !.dim_slider = value], value)

\* a second-display switch that leaves the overlay of display 1 open
_on_second_display_changed_keeping(c, checked) ==
    LET d0 == _save_state([c EXCEPT !.second_display_enabled = checked])
        d == [d0 EXCEPT
                 !.second_display_slider_enabled = checked,
                 !.second_display_blue_check_enabled = checked,
                 !.second_display_blue_intensity_widget_enabled =
                     checked /\ d0.second_display_blue_light]
    IN  IF d.second_display_enabled /\ (d.dimmer_active \/ d.blue_light_active)
        THEN _update_second_display(d)
        ELSE d

\* DimmerControl._on_second_display_changed
_on_second_display_changed(c, checked) ==
    LET d0 == _save_state([c EXCEPT !.second_display_enabled = checked])
        d == [d0 EXCEPT
                 !.second_display_slider_enabled = checked,
                 !.second_display_blue_check_enabled = checked,
                 !.second_display_blue_intensity_widget_enabled =
                     checked /\ d0.second_display_blue_light]
    IN  IF d.second_display_enabled
        THEN IF d.dimmer_active \/ d.blue_light_active
             THEN _update_second_display(d)
             ELSE d
        ELSE _close_overlay_for_screen(d, 1)

\* DimmerControl._on_second_display_dim_changed
_on_second_display_dim_changed(c, value) ==
    LET d == _save_state([c EXCEPT !.second_display_dim = value,
                                   !.second_display_slider = value])
    IN  IF d.second_display_enabled
        THEN IF d.second_display_blue_light
             THEN _update_second_display(d)
             ELSE _apply_dimming_to_screen(d, 1, value, NoTint)
        ELSE d

\* DimmerControl._on_second_display_blue_light_changed
_on_second_display_blue_light_changed(c, checked) ==
    _update_second_display(
        _save_state(
            [c EXCEPT !.second_display_blue_light = checked,
                      !.second_display_blue_intensity_widget_enabled = checked]))

\* DimmerControl._on_second_display_blue_intensity_changed: the attribute
\* becomes the integer value
_on_second_display_blue_intensity_changed(c, value) ==
    LET d == _save_state(
                 [c EXCEPT !.second_display_blue_intensity = value,
                           !.second_display_blue_intensity_is_widget = FALSE,
                           !.second_display_blue_intensity_widget = value])
    IN  IF d.second_display_blue_light
        THEN _update_second_display(d)
        ELSE d

\* DimmerControl._on_blue_light_changed
_on_blue_light_changed(c, checked) ==
    _update_blue_light(
        _save_state([c EXCEPT !.blue_light_active = checked,
                              !.blue_intensity_enabled = checked]))

\* DimmerControl._on_blue_intensity_changed (the slider holds the value)
_on_blue_intensity_changed(c, value) ==
    LET d == _save_state([c EXCEPT !.blue_intensity = value])
    IN  IF d.blue_light_active THEN _update_blue_light(d) ELSE d

----------------------------------------------------------------------------
(* Schedule                                                                *)

\* an in-window test that forgets the overnight case
in_schedule_same_day(current_time, start_time, end_time) ==
    start_time <= current_time /\ current_time <= end_time

\* the in-window test of _check_schedule
in_schedule(current_time, start_time, end_time) ==
    IF start_time <= end_time
    THEN start_time <= current_time /\ current_time <= end_time
    ELSE current_time >= start_time \/ current_time <= end_time

\* the in-window test of _apply_preset
in_schedule_preset(current_time, start_time, end_time) ==
    IF start_time <= end_time
    THEN start_time <= current_time /\ current_time <= end_time
    ELSE current_time >= start_time \/ current_time <= end_time

\* the in-window test of _apply_custom_schedule
in_schedule_custom(current_time, start_time, end_time) ==
    IF start_time <= end_time
    THEN start_time <= current_time /\ current_time <= end_time
    ELSE current_time >= start_time \/ current_time <= end_time

\* the in-window test of _update_time_remaining
in_schedule_remaining(current_time, start_time, end_time) ==
    IF start_time <= end_time
    THEN start_time <= current_time /\ current_time <= end_time
    ELSE current_time >= start_time \/ current_time <= end_time

\* "would be active now" / "set for later"
status_text(in_window) ==
    IF in_window THEN "would be active now" ELSE "set for later"

\* t.hour() * 3600 + t.minute() * 60
HourMinuteSeconds(t) ==
    (t \div 60) * 60

\* remaining seconds that are never wrapped around midnight
remaining_seconds_naive(current_time, start_time, end_time) ==
    IF in_schedule_remaining(current_time, start_time, end_time)
    THEN HourMinuteSeconds(end_time) - HourMinuteSeconds(current_time)
    ELSE HourMinuteSeconds(start_time) - HourMinuteSeconds(current_time)

\* remaining_seconds of _update_time_remaining
remaining_seconds(current_time, start_time, end_time) ==
    LET start_seconds == HourMinuteSeconds(start_time)
        end_seconds == HourMinuteSeconds(end_time)
        current_seconds == HourMinuteSeconds(current_time)
    IN  IF in_schedule_remaining(current_time, start_time, end_time)
        THEN IF start_time <= end_time
             THEN end_seconds - current_seconds
             ELSE IF current_time >= start_time
                  THEN (end_seconds + 24 * 3600) - current_seconds
                  ELSE end_seconds - current_seconds
        ELSE IF start_time <= end_time
             THEN IF current_seconds < start_seconds
                  THEN start_seconds - current_seconds
                  ELSE (24 * 3600) - current_seconds + start_seconds
             ELSE start_seconds - current_seconds

\* DimmerControl._update_time_remaining (slot of time_remaining_timer)
_update_time_remaining(c) ==
    IF ~ c.schedule_time_set
    THEN [c EXCEPT !.time_remaining_label =
                       [text |-> "No schedule set", remaining_seconds |-> 0],
                   !.time_remaining_timer = FALSE]
    ELSE LET inside == in_schedule_remaining(CurrentTime, c.start_time,
                                             c.end_time)
             r == remaining_seconds(CurrentTime, c.start_time, c.end_time)
             text == IF inside
                     THEN IF r > 0 THEN "Schedule ends in"
                                   ELSE "Schedule ending now"
                     ELSE IF r > 0 THEN "Schedule starts in"
                                   ELSE "Schedule starting now"
         IN  [c EXCEPT !.time_remaining_label =
                           [text |-> text, remaining_seconds |-> r]]

\* schedule_timer.start / time_remaining_timer.start when not active
start_schedule_timers(c) ==
    [c EXCEPT !.schedule_timer = TRUE, !.time_remaining_timer = TRUE]

\* the start time, end time and level of _apply_preset's branches
PresetOf(preset_type) ==
    CASE preset_type = "all_day" -> <<QTime(6, 0), QTime(18, 0), 75, "All Day">>
      [] preset_type = "all_night" -> <<QTime(18, 0), QTime(6, 0), 90, "All Night">>
      [] preset_type = "night" -> <<QTime(20, 0), QTime(7, 0), 85, "Night Mode">>
      [] preset_type = "evening" -> <<QTime(18, 0), QTime(23, 0), 75, "Evening">>
      [] preset_type = "late_night" -> <<QTime(22, 0), QTime(6, 0), 90, "Late Night">>

\* DimmerControl._apply_preset for the preset buttons (the state is not saved)
_apply_preset(c, preset_type) ==
    LET p == PresetOf(preset_type)
        d == [c EXCEPT !.start_time = p[1],
                       !.end_time = p[2],
                       !.schedule_dim_value = p[3],
                       !.schedule_time_set = TRUE]
    IN  showMessageText(start_schedule_timers(d), "Preset Set",
                        status_text(in_schedule_preset(CurrentTime,
                                                       d.start_time,
                                                       d.end_time)))

\* a custom schedule applied without the test of the times
_apply_custom_schedule_unchecked(c, start_time, end_time, dim_value) ==
    showMessage(
        start_schedule_timers(
            [c EXCEPT !.start_time = start_time,
                      !.end_time = end_time,
                      !.schedule_dim_value = dim_value,
                      !.schedule_time_set = TRUE]),
        "Custom Schedule Set")

\* DimmerControl._apply_custom_schedule: equal times are refused in a
\* QMessageBox before anything is assigned
_apply_custom_schedule(c, start_time, end_time, dim_value) ==
    IF start_time = end_time
    THEN [c EXCEPT !.warning_box = "Invalid Time"]
    ELSE LET d == [c EXCEPT !.start_time = start_time,
                            !.end_time = end_time,
                            !.schedule_dim_value = dim_value,
                            !.schedule_time_set = TRUE]
         IN  showMessageText(start_schedule_timers(d), "Custom Schedule Set",
                             status_text(in_schedule_custom(CurrentTime,
                                                            start_time,
                                                            end_time)))

\* a schedule switch without the test of schedule_time_set
_toggle_schedule_control_unchecked(c) ==
    IF ~ c.schedule_enabled
    THEN _save_state(showMessage([c EXCEPT !.schedule_enabled = TRUE],
                                 "Schedule Enabled"))
    ELSE showMessage([c EXCEPT !.schedule_enabled = FALSE],
                     "Schedule Disabled")

\* a schedule switch whose disabling leaves the dimmer as it is
_toggle_schedule_control_keeping_dimmer(c) ==
    IF ~ c.schedule_time_set
    THEN showMessage(c, "No Schedule Time Set")
    ELSE IF ~ c.schedule_enabled
         THEN _save_state(showMessage([c EXCEPT !.schedule_enabled = TRUE],
                                      "Schedule Enabled"))
         ELSE showMessage([c EXCEPT !.schedule_enabled = FALSE],
                          "Schedule Disabled")

\* DimmerControl._toggle_schedule_control
_toggle_schedule_control(c) ==
    IF c.schedule_toggle_in_progress
    THEN c
    ELSE LET c0 == [c EXCEPT !.schedule_toggle_in_progress = TRUE]
             off == [c0 EXCEPT !.schedule_enabled = FALSE]
             stopped == IF off.dimmer_active THEN _toggle_dimmer(off) ELSE off
             r == IF ~ c0.schedule_time_set
                  THEN showMessage(c0, "No Schedule Time Set")
                  ELSE IF ~ c0.schedule_enabled
                       THEN _save_state(showMessage(
                                [c0 EXCEPT !.schedule_enabled = TRUE],
                                "Schedule Enabled"))
                       ELSE IF stopped.exc
                            THEN stopped
                            ELSE showMessage(stopped, "Schedule Disabled")
         IN  [r EXCEPT !.schedule_toggle_in_progress = FALSE]

\* a tick that turns the dimmer On at the level it has
_check_schedule_keeping_level(c) ==
    IF ~ c.schedule_enabled \/ ~ c.schedule_time_set
    THEN c
    ELSE IF in_schedule(CurrentTime, c.start_time, c.end_time)
         THEN showMessage(IF ~ c.dimmer_active THEN _toggle_dimmer(c) ELSE c,
                          "Schedule Auto-Started")
         ELSE showMessage(IF c.dimmer_active /\ ~ c.blue_light_active
                          THEN _toggle_dimmer(c)
                          ELSE c,
                          "Schedule Ended")

\* a tick that turns the dimmer Off whatever the tint
_check_schedule_ignoring_tint(c) ==
    IF ~ c.schedule_enabled \/ ~ c.schedule_time_set
    THEN c
    ELSE IF in_schedule(CurrentTime, c.start_time, c.end_time)
         THEN showMessage(IF ~ c.dimmer_active
                          THEN _toggle_dimmer(
                                   dim_slider_setValue(c, c.schedule_dim_value))
                          ELSE c,
                          "Schedule Auto-Started")
         ELSE showMessage(IF c.dimmer_active THEN _toggle_dimmer(c) ELSE c,
                          "Schedule Ended")

\* DimmerControl._check_schedule (slot of schedule_timer.timeout)
_check_schedule(c) ==
    IF ~ c.schedule_enabled \/ ~ c.schedule_time_set
    THEN IF ~ c.schedule_time_set
         THEN [c EXCEPT !.schedule_timer = FALSE,
                        !.time_remaining_timer = FALSE]
         ELSE c
    ELSE IF in_schedule(CurrentTime, c.start_time, c.end_time)
         THEN LET a == IF ~ c.dimmer_active
                       THEN _toggle_dimmer(
                                dim_slider_setValue(c, c.schedule_dim_value))
                       ELSE c
              IN  IF a.exc THEN a ELSE showMessage(a, "Schedule Auto-Started")
         ELSE LET a == IF c.dimmer_active /\ ~ c.blue_light_active
                       THEN _toggle_dimmer(c)
                       ELSE c
              IN  IF a.exc THEN a ELSE showMessage(a, "Schedule Ended")

----------------------------------------------------------------------------
(* Quick timer                                                             *)

\* a timer start that leaves the dimmer as it is
_start_timer_only(c, minutes) ==
    showMessage([c EXCEPT !.timer_active = TRUE,
                          !.timer_minutes = minutes,
                          !.timer_end_time = Now + minutes * 60,
                          !.timer_timer = TRUE],
                "Timer Started")

\* DimmerControl._start_timer
_start_timer(c, minutes) ==
    LET d == [c EXCEPT !.timer_active = TRUE,
                       !.timer_minutes = minutes,
                       !.timer_end_time = Now + minutes * 60]
        a == IF ~ d.dimmer_active THEN _toggle_dimmer(d) ELSE d
    IN  IF a.exc
        THEN a
        ELSE showMessage([a EXCEPT !.timer_timer = TRUE], "Timer Started")

\* a timer check that never finds the deadline reached
_check_timer_never(c) ==
    IF ~ c.timer_active \/ c.timer_end_time = NoTime
    THEN [c EXCEPT !.timer_timer = FALSE]
    ELSE c

\* a timer check that, on expiry, leaves the deadline set
_check_timer_keeping_deadline(c) ==
    IF ~ c.timer_active \/ c.timer_end_time = NoTime
    THEN [c EXCEPT !.timer_timer = FALSE]
    ELSE IF Now >= c.timer_end_time
         THEN LET a == IF c.dimmer_active THEN _toggle_dimmer(c) ELSE c
              IN  IF a.exc
                  THEN a
                  ELSE showMessage([a EXCEPT !.timer_active = FALSE,
                                             !.timer_minutes = 0,
                                             !.timer_timer = FALSE],
                                   "Timer Ended")
         ELSE c

\* DimmerControl._check_timer (slot of timer_timer.timeout)
_check_timer(c) ==
    IF ~ c.timer_active \/ c.timer_end_time = NoTime
    THEN [c EXCEPT !.timer_timer = FALSE]
    ELSE IF Now >= c.timer_end_time
         THEN LET a == IF c.dimmer_active THEN _toggle_dimmer(c) ELSE c
              IN  IF a.exc
                  THEN a
                  ELSE showMessage([a EXCEPT !.timer_active = FALSE,
                                             !.timer_minutes = 0,
                                             !.timer_end_time = NoTime,
                                             !.timer_timer = FALSE],
                                   "Timer Ended")
         ELSE c

----------------------------------------------------------------------------
(* Blinker switch                                                          *)

\* DimmerControl._toggle_blinker
_toggle_blinker(c) ==
    IF c.blinker_active
    THEN _save_state(showMessage(
             [c EXCEPT !.blinker_active = FALSE,
                       !.blinker_timer = FALSE,
                       !.blinker_countdown_timer = FALSE],
             "Blinker Disabled"))
    ELSE _save_state(showMessage(
             [c EXCEPT !.blinker_active = TRUE,
                       !.blinker_timer = TRUE,
                       !.blinker_timer_interval =
                           c.rain_interval_minutes * 60 * 1000,
                       !.blinker_countdown_timer = TRUE],
             "Blinker Enabled"))

----------------------------------------------------------------------------
(* RainOverlay and the blink reminder                                      *)

\* RainOverlay.__init__: no items, the animation timer idle, 5000 ms
NewRainOverlay ==
    [ rain_items |-> <<>>,
      rain_timer |-> FALSE,
      rain_timer_due |-> 0,
      rain_duration |-> 5000,
      start_time |-> 0,
      visible |-> FALSE,
      emoji_enabled |-> FALSE,
      text_enabled |-> FALSE ]

\* the item count of _create_rain_items: min(25, max_items), max_items 50
ItemCount ==
    Min(25, 50)

\* the item _create_rain_items makes for index i
RainItem(o, i) ==
    LET spacing == ScreenWidth \div ItemCount
    IN  [ x |-> i * spacing + (spacing \div 2),
          y |-> 0 - 50,
          speed |-> 2 + (i % 5),
          type |-> IF o.emoji_enabled /\ o.text_enabled
                   THEN IF i % 2 = 0 THEN "emoji" ELSE "text"
                   ELSE IF o.emoji_enabled THEN "emoji" ELSE "text" ]

\* RainOverlay._create_rain_items
_create_rain_items(o) ==
    [o EXCEPT !.rain_items =
        @ \o [k \in 1..ItemCount |-> RainItem(o, k - 1)]]

\* RainOverlay.start_rain, called at time now (ms)
start_rain(o, emoji_enabled, text_enabled, now) ==
    LET o1 == [o EXCEPT !.emoji_enabled = emoji_enabled,
                        !.text_enabled = text_enabled,
                        !.rain_items = <<>>,
                        !.start_time = now]
    IN  [_create_rain_items(o1) EXCEPT !.rain_timer = TRUE,
                                       !.rain_timer_due = now + RainTickMs,
                                       !.visible = TRUE]

\* an item that falls on below the bottom edge
MoveItem_falling(item) ==
    [item EXCEPT !.y = item.y + item.speed]

\* the loop body of _update_rain for one item
MoveItem(item) ==
    LET y == item.y + item.speed
    IN  IF y > ScreenHeight
        THEN [item EXCEPT !.y = 0 - 50, !.x = (item.x + 100) % ScreenWidth]
        ELSE [item EXCEPT !.y = y]

\* _update_rain without the test of the elapsed time
_update_rain_endless(o, now) ==
    [o EXCEPT !.rain_items = [k \in 1..Len(@) |-> MoveItem(@[k])],
              !.rain_timer_due = now + RainTickMs]

\* RainOverlay._update_rain (slot of rain_timer.timeout), called at time now;
\* the running timer is due again one period later
_update_rain(o, now) ==
    IF now - o.start_time > o.rain_duration
    THEN [o EXCEPT !.rain_timer = FALSE,
                   !.rain_items = <<>>,
                   !.visible = FALSE]
    ELSE LET OnScreen(item) == item.y < ScreenHeight + 200
             kept == SelectSeq(o.rain_items, OnScreen)
         IN  [o EXCEPT !.rain_items = [k \in 1..Len(kept) |-> MoveItem(kept[k])],
                       !.rain_timer_due = now + RainTickMs]

\* the loop body of _blinker_rain_effect for one screen index
rain_on_screen(c, screen_idx) ==
    IF screen_idx < screens
    THEN LET made == IF screen_idx \in DOMAIN c.rain_overlays
                     THEN c.rain_overlays[screen_idx]
                     ELSE [NewRainOverlay EXCEPT
                              !.rain_duration = c.rain_duration_seconds * 1000]
             started == start_rain(made, c.emoji_blink_enabled,
                                   c.text_blink_enabled, msecs)
         IN  [c EXCEPT !.rain_overlays = (screen_idx :> started) @@ @]
    ELSE c

\* _blinker_rain_effect restarting the interval timer whether or not the
\* blinker is active
_blinker_rain_effect_restarting(c) ==
    LET enabled_screens == _get_enabled_screens(c)
        s0 == rain_on_screen(c, 0)
        s1 == IF 1 \in enabled_screens THEN rain_on_screen(s0, 1) ELSE s0
        shown == showMessage(s1, "Blink Reminder: Text")
    IN  [shown EXCEPT !.blinker_timer = TRUE,
                      !.blinker_timer_interval =
                          shown.rain_interval_minutes * 60 * 1000]

\* DimmerControl._blinker_rain_effect (slot of blinker_timer.timeout and of
\* the test button)
_blinker_rain_effect(c) ==
    LET enabled_screens == _get_enabled_screens(c)
        s0 == rain_on_screen(c, 0)
        s1 == IF 1 \in enabled_screens THEN rain_on_screen(s0, 1) ELSE s0
        title == IF c.emoji_blink_enabled /\ c.text_blink_enabled
                 THEN "Blink Reminder: Eyes & Text"
                 ELSE IF c.emoji_blink_enabled
                      THEN "Blink Reminder: Eyes"
                      ELSE "Blink Reminder: Text"
        shown == showMessage(s1, title)
    IN  IF shown.blinker_active
        THEN [shown EXCEPT !.blinker_timer = TRUE,
                           !.blinker_timer_interval =
                               shown.rain_interval_minutes * 60 * 1000]
        ELSE shown

\* DimmerControl._on_emoji_blink_changed
_on_emoji_blink_changed(c, checked) ==
    _save_state([c EXCEPT !.emoji_blink_enabled = checked])

\* DimmerControl._on_rain_interval_changed
_on_rain_interval_changed(c, value) ==
    LET d == [c EXCEPT !.rain_interval_minutes = value]
    IN  _save_state(
            IF d.blinker_active
            THEN [d EXCEPT !.blinker_timer = TRUE,
                           !.blinker_timer_interval = value * 60 * 1000]
            ELSE d)

\* DimmerControl._on_rain_duration_changed
_on_rain_duration_changed(c, value) ==
    _save_state(
        [c EXCEPT !.rain_duration_seconds = value,
                  !.rain_overlays =
                      [i \in DOMAIN @ |->
                          [@[i] EXCEPT !.rain_duration = value * 1000]]])

----------------------------------------------------------------------------
(* Gesture mode                                                            *)

\* DimmerOverlay.temporarily_hide_for_gestures: WS_EX_TRANSPARENT is removed
temporarily_hide_for_gestures(o) ==
    [o EXCEPT !.click_through = FALSE]

\* DimmerOverlay._restore_transparency
_restore_transparency(o) ==
    [o EXCEPT !.click_through = TRUE]

\* DimmerControl._temporarily_hide_overlay
_temporarily_hide_overlay(c) ==
    IF c.dimmer_active
    THEN showMessage(
             [c EXCEPT !.overlays =
                 [i \in DOMAIN @ |-> temporarily_hide_for_gestures(@[i])]],
             "Gesture Mode")
    ELSE c

----------------------------------------------------------------------------
(* Start-up                                                                *)

\* QTime(int(parts[0]), int(parts[1])) of a saved 'HH:mm', None kept as None
parse_time(hhmm, old) ==
    IF hhmm = <<>> THEN old ELSE QTime(hhmm[1], hhmm[2])

\* a key is present in the loaded JSON object
Has(state, key) ==
    key \in DOMAIN state

\* a state file that is not valid JSON
Malformed ==
    [exists |-> TRUE, malformed |-> TRUE]

\* a state file whose bytes do not decode as text
Undecodable ==
    [exists |-> TRUE, undecodable |-> TRUE]

\* StateManager.load_state raises: open and json.load are guarded by
\* except (FileNotFoundError, json.JSONDecodeError) only, and the
\* UnicodeDecodeError of reading undecodable bytes is neither
load_state_raises(file) ==
    file.exists /\ Has(file, "undecodable")

\* StateManager.load_state followed by "if not state: return": a missing
\* file, a JSONDecodeError and an empty object all give no saved state
load_state(file) ==
    IF file.exists /\ ~ Has(file, "malformed") /\ DOMAIN file # {"exists"}
    THEN file
    ELSE NoFile

\* DimmerControl._load_saved_state, the attributes it assigns, each one only
\* when its key is in the file.  dimmer_active is not assigned: it is
\* restored by a deferred _toggle_dimmer
_load_saved_state(c, file) ==
    LET state == load_state(file)
    IN  IF ~ state.exists
        THEN c
        ELSE [c EXCEPT
            !.current_dim =
                IF Has(state, "current_dim") THEN state.current_dim ELSE @,
            !.dim_slider =
                IF Has(state, "current_dim")
                THEN Max(0, Min(SliderMax, state.current_dim)) ELSE @,
            !.blue_light_active =
                IF Has(state, "blue_light_active")
                THEN state.blue_light_active ELSE @,
            !.blue_intensity =
                IF Has(state, "blue_intensity")
                THEN Max(0, Min(100, state.blue_intensity)) ELSE @,
            !.blue_intensity_enabled =
                IF Has(state, "blue_intensity")
                THEN IF Has(state, "blue_light_active")
                     THEN state.blue_light_active
                     ELSE c.blue_light_active
                ELSE @,
            !.second_display_enabled =
                IF Has(state, "second_display_enabled")
                THEN state.second_display_enabled ELSE @,
            !.second_display_dim =
                IF Has(state, "second_display_dim")
                THEN state.second_display_dim ELSE @,
            !.second_display_slider =
                IF Has(state, "second_display_dim")
                THEN Max(0, Min(SliderMax, state.second_display_dim)) ELSE @,
            !.second_display_blue_light =
                IF Has(state, "second_display_blue_light")
                THEN state.second_display_blue_light ELSE @,
            !.second_display_blue_intensity =
                IF Has(state, "second_display_blue_intensity")
                THEN state.second_display_blue_intensity ELSE @,
            !.second_display_blue_intensity_is_widget =
                IF Has(state, "second_display_blue_intensity") THEN FALSE ELSE @,
            !.second_display_blue_intensity_widget =
                IF Has(state, "second_display_blue_intensity")
                THEN Max(0, Min(100, state.second_display_blue_intensity))
                ELSE @,
            !.schedule_enabled =
                IF Has(state, "schedule_enabled")
                THEN state.schedule_enabled ELSE @,
            !.schedule_time_set =
                IF Has(state, "schedule_time_set")
                THEN state.schedule_time_set ELSE @,
            !.schedule_dim_value =
                IF Has(state, "schedule_dim_value")
                THEN state.schedule_dim_value ELSE @,
            !.start_time =
                IF Has(state, "start_time")
                THEN parse_time(state.start_time, @) ELSE @,
            !.end_time =
                IF Has(state, "end_time")
                THEN parse_time(state.end_time, @) ELSE @,
            !.blinker_active =
                IF Has(state, "blinker_active")
                THEN state.blinker_active ELSE @,
            !.emoji_blink_enabled =
                IF Has(state, "emoji_blink_enabled")
                THEN state.emoji_blink_enabled ELSE @,
            !.text_blink_enabled =
                IF Has(state, "text_blink_enabled")
                THEN state.text_blink_enabled ELSE @,
            !.rain_interval_minutes =
                IF Has(state, "rain_interval_minutes")
                THEN state.rain_interval_minutes ELSE @,
            !.rain_duration_seconds =
                IF Has(state, "rain_duration_seconds")
                THEN state.rain_duration_seconds ELSE @]

\* restores no deferred call at all
load_deferred_none(c, file) ==
    <<>>

\* the QTimer.singleShot calls at the end of _load_saved_state, in the order
\* of their delays (100, 200, 300 ms); c is the controller after the load
load_deferred(c, file) ==
    LET state == load_state(file)
    IN  IF ~ state.exists
        THEN <<>>
        ELSE (IF Has(state, "dimmer_active") /\ state.dimmer_active
              THEN <<"dimmer">> ELSE <<>>)
             \o (IF c.blue_light_active THEN <<"blue_light">> ELSE <<>>)
             \o (IF c.second_display_enabled
                 THEN <<"second_display">> ELSE <<>>)

\* the call a deferred restore makes
run_deferred(c, what) ==
    CASE what = "dimmer" ->
            IF ~ c.dimmer_active THEN _toggle_dimmer(c) ELSE c
      [] what = "blue_light" -> _update_blue_light(c)
      [] what = "second_display" -> _update_second_display(c)

----------------------------------------------------------------------------
(* Hotkey listener                                                         *)

\* what a hotkey callback leaves: the controller and the event-loop queue
Posted(c, q, call) ==
    [ctl |-> c, queue |-> Append(q, call)]

\* a callback that toggles the dimmer on the listener's thread
_hotkey_callback_direct(c, q) ==
    Posted(_toggle_dimmer(c), q, "_toggle_dimmer")

\* DimmerControl._hotkey_callback: QTimer.singleShot(0, self._toggle_dimmer)
_hotkey_callback(c, q) ==
    Posted(c, q, "_toggle_dimmer")

\* DimmerControl._blinker_hotkey_callback
_blinker_hotkey_callback(c, q) ==
    Posted(c, q, "_toggle_blinker")

\* DimmerControl._gesture_hotkey_callback
_gesture_hotkey_callback(c, q) ==
    Posted(c, q, "_temporarily_hide_overlay")

\* the slot the event loop runs for a posted call
run_posted(c, call) ==
    CASE call = "_toggle_dimmer" -> _toggle_dimmer(c)
      [] call = "_toggle_blinker" -> _toggle_blinker(c)
      [] call = "_temporarily_hide_overlay" -> _temporarily_hide_overlay(c)

----------------------------------------------------------------------------
(* Steps                                                                   *)

Event(op, thread) ==
    [op |-> op, thread |-> thread, was_active |-> self.dimmer_active]

\* a handler returns to the event loop with result r; an exception that
\* reaches the event loop ends the process (PyQt5 aborts on an unhandled
\* exception in a slot), what was written to disk stays
Finish(op, r, q, d) ==
    /\ alive' = ~ r.exc
    /\ self' = IF r.exc THEN InitSelf ELSE Attrs(r)
    /\ state_file' = r.state_file
    /\ queue' = IF r.exc THEN <<>> ELSE q
    /\ deferred' = IF r.exc THEN <<>> ELSE d
    /\ ev' = Event(op, "main")
    /\ UNCHANGED <<screens, clock, msecs, profiles_file>>

Handle(op, r) ==
    alive /\ Finish(op, r, queue, deferred)

Init ==
    /\ alive = TRUE
    /\ self = InitSelf
    /\ state_file = NoFile
    /\ screens \in 1..MaxScreens
    /\ clock = 1
    /\ queue = <<>>
    /\ deferred = <<>>
    /\ msecs = 0
    /\ profiles_file = NoFile
    /\ ev = [op |-> "__init__", thread |-> "main", was_active |-> FALSE]

\* toggle button, tray action or in-window shortcut
Ev_toggle_dimmer ==
    Handle("_toggle_dimmer", _toggle_dimmer(Enter))

\* the dim slider or a preset button moves the slider
Ev_dim_changed ==
    \E v \in SliderValues :
        /\ v # self.dim_slider
        /\ Handle("_on_dim_changed", dim_slider_setValue(Enter, v))

\* the dim slider dragged to any position of its range
Ev_dim_dragged ==
    \E v \in 0..SliderMax :
        /\ v # self.dim_slider
        /\ Handle("_on_dim_changed", dim_slider_setValue(Enter, v))

Ev_blue_light_changed ==
    Handle("_on_blue_light_changed",
           _on_blue_light_changed(Enter, ~ self.blue_light_active))

Ev_blue_intensity_changed ==
    \E v \in IntensityValues :
        /\ self.blue_intensity_enabled
        /\ v # self.blue_intensity
        /\ Handle("_on_blue_intensity_changed",
                  _on_blue_intensity_changed(Enter, v))

\* the intensity slider dragged to any position of its range
Ev_blue_intensity_dragged ==
    \E v \in 0..IntensityMax :
        /\ self.blue_intensity_enabled
        /\ v # self.blue_intensity
        /\ Handle("_on_blue_intensity_changed",
                  _on_blue_intensity_changed(Enter, v))

\* the checkbox is enabled when there is a second screen
Ev_second_display_changed ==
    /\ screens > 1
    /\ Handle("_on_second_display_changed",
           _on_second_display_changed(Enter, ~ self.second_display_enabled))

\* the second display's slider or a preset button, when enabled
Ev_second_display_dim_changed ==
    \E v \in SecondSliderValues :
        /\ self.second_display_slider_enabled
        /\ v # self.second_display_slider
        /\ Handle("_on_second_display_dim_changed",
                  _on_second_display_dim_changed(Enter, v))

Ev_second_display_blue_light_changed ==
    /\ self.second_display_blue_check_enabled
    /\ Handle("_on_second_display_blue_light_changed",
              _on_second_display_blue_light_changed(
                  Enter, ~ self.second_display_blue_light))

Ev_second_display_blue_intensity_changed ==
    \E v \in IntensityValues :
        /\ self.second_display_blue_intensity_widget_enabled
        /\ v # self.second_display_blue_intensity_widget
        /\ Handle("_on_second_display_blue_intensity_changed",
                  _on_second_display_blue_intensity_changed(Enter, v))

Ev_apply_preset ==
    \E p \in {"all_day", "all_night"} :
        Handle("_apply_preset", _apply_preset(Enter, p))

Ev_apply_custom_schedule ==
    \E s \in {QTime(22, 0), QTime(6, 0)}, e \in {QTime(22, 0), QTime(6, 0)},
       d \in CustomDims :
        Handle("_apply_custom_schedule", _apply_custom_schedule(Enter, s, e, d))

\* time_remaining_timer fires
Tick_update_time_remaining ==
    /\ self.time_remaining_timer
    /\ Handle("_update_time_remaining", _update_time_remaining(Enter))

\* the schedule button's slot; whether the button is enabled is not part of
\* the state, the slot's own test of schedule_time_set decides
Ev_toggle_schedule_control ==
    Handle("_toggle_schedule_control", _toggle_schedule_control(Enter))

\* the Start button of the timer dialog; the deadline lies within the
\* modelled time
Ev_start_timer ==
    \E m \in TimerMinutes :
        /\ Now + m * 60 <= Timeline[MaxInstant]
        /\ Handle("_start_timer", _start_timer(Enter, m))

Ev_toggle_blinker ==
    Handle("_toggle_blinker", _toggle_blinker(Enter))

\* a rain started now ends within the modelled time
RainFits(seconds) ==
    msecs + seconds * 1000 < MaxMsTicks * MsStep

\* blinker_timer fires
Tick_blinker_rain_effect ==
    /\ self.blinker_timer
    /\ RainFits(self.rain_duration_seconds)
    /\ Handle("_blinker_rain_effect", _blinker_rain_effect(Enter))

\* the test button: _trigger_immediate_rain
Ev_trigger_immediate_rain ==
    /\ RainFits(self.rain_duration_seconds)
    /\ Handle("_trigger_immediate_rain", _blinker_rain_effect(Enter))

\* the rain_timer of the overlay of one screen fires
Tick_update_rain ==
    \E i \in DOMAIN self.rain_overlays :
        /\ self.rain_overlays[i].rain_timer
        /\ self.rain_overlays[i].rain_timer_due <= msecs
        /\ Handle("_update_rain",
                  [Enter EXCEPT !.rain_overlays[i] = _update_rain(@, msecs)])

Ev_emoji_blink_changed ==
    \E checked \in BOOLEAN :
        /\ checked # self.emoji_blink_enabled
        /\ Handle("_on_emoji_blink_changed",
                  _on_emoji_blink_changed(Enter, checked))

Ev_rain_interval_changed ==
    \E value \in RainIntervals :
        /\ value # self.rain_interval_minutes
        /\ Handle("_on_rain_interval_changed",
                  _on_rain_interval_changed(Enter, value))

Ev_rain_duration_changed ==
    \E value \in RainDurations :
        /\ value # self.rain_duration_seconds
        /\ \A i \in DOMAIN self.rain_overlays :
              self.rain_overlays[i].rain_timer =>
                  self.rain_overlays[i].start_time + value * 1000
                      < MaxMsTicks * MsStep
        /\ Handle("_on_rain_duration_changed",
                  _on_rain_duration_changed(Enter, value))

\* schedule_timer fires
Tick_check_schedule ==
    /\ self.schedule_timer
    /\ Handle("_check_schedule", _check_schedule(Enter))

\* timer_timer fires
Tick_check_timer ==
    /\ self.timer_timer
    /\ Handle("_check_timer", _check_timer(Enter))

\* the one-second single shot of temporarily_hide_for_gestures fires
Tick_restore_transparency ==
    \E i \in DOMAIN self.overlays :
        /\ ~ self.overlays[i].click_through
        /\ Handle("_restore_transparency",
                  [Enter EXCEPT !.overlays[i] = _restore_transparency(@)])

\* the keyboard listener's thread runs a hotkey callback
Listener(op, r) ==
    /\ alive
    /\ Len(queue) < MaxQueue
    /\ self' = Attrs(r.ctl)
    /\ state_file' = r.ctl.state_file
    /\ queue' = r.queue
    /\ ev' = Event(op, "listener")
    /\ UNCHANGED <<alive, screens, clock, deferred, msecs, profiles_file>>

Key_alt_d ==
    Listener("_hotkey_callback", _hotkey_callback(Enter, queue))

Key_alt_r ==
    Listener("_blinker_hotkey_callback", _blinker_hotkey_callback(Enter, queue))

Key_alt_g ==
    Listener("_gesture_hotkey_callback", _gesture_hotkey_callback(Enter, queue))

\* the event loop runs the oldest posted call
Dispatch ==
    /\ alive
    /\ queue # <<>>
    /\ Finish(Head(queue), run_posted(Enter, Head(queue)), Tail(queue), deferred)

\* the event loop runs the next deferred restore
RunDeferred ==
    /\ alive
    /\ deferred # <<>>
    /\ Finish("restore", run_deferred(Enter, Head(deferred)), queue,
              Tail(deferred))

\* time passes
AdvanceClock ==
    /\ clock < MaxInstant
    /\ clock' = clock + 1
    /\ UNCHANGED <<alive, self, state_file, screens, queue, deferred, msecs,
                   profiles_file, ev>>

\* the millisecond clock moves on
AdvanceMsecs ==
    /\ alive
    /\ msecs < MaxMsTicks * MsStep
    /\ msecs' = msecs + MsStep
    /\ UNCHANGED <<alive, self, state_file, screens, clock, queue, deferred,
                   profiles_file, ev>>

\* the opacity animation of the overlay of one display reaches its end
AnimationFinished(i) ==
    /\ i \in DOMAIN self.overlays
    /\ \E a \in self.overlays[i].in_flight :
           Handle("finished",
                  [Enter EXCEPT !.overlays[i] = animation_finished(@, a)])

\* the millisecond clock moves on by one period of the animation timer
AdvanceFrame ==
    /\ alive
    /\ msecs < MaxFrames * RainTickMs
    /\ msecs' = msecs + RainTickMs
    /\ UNCHANGED <<alive, self, state_file, screens, clock, queue, deferred,
                   profiles_file, ev>>

\* DimmerControl.quit_app: the process ends, the state file is not written
Quit ==
    /\ alive
    /\ alive' = FALSE
    /\ self' = InitSelf
    /\ queue' = <<>>
    /\ deferred' = <<>>
    /\ profiles_file' = ProfileManager_save(self.profile_manager, profiles_file).file
    /\ ev' = Event("quit_app", "main")
    /\ UNCHANGED <<state_file, screens, clock, msecs>>

\* main(): DimmerControl() is constructed and loads the state file
Launch ==
    /\ ~ alive
    /\ profiles_file' = ProfileManager_init(profiles_file).file
    /\ IF load_state_raises(state_file)
       THEN /\ alive' = FALSE
            /\ self' = InitSelf
            /\ deferred' = <<>>
       ELSE /\ alive' = TRUE
            /\ self' = _load_saved_state(
                           [InitSelf EXCEPT !.profile_manager =
                               ProfileManager_init(profiles_file).pm],
                           state_file)
            /\ deferred' = load_deferred(self', state_file)
    /\ queue' = <<>>
    /\ ev' = Event("__init__", "main")
    /\ UNCHANGED <<state_file, screens, clock, msecs>>

\* dimmer, tint and second display
Next ==
    \/ Ev_toggle_dimmer
    \/ Ev_dim_changed
    \/ Ev_blue_light_changed
    \/ Ev_blue_intensity_changed
    \/ Ev_second_display_changed
    \/ Ev_second_display_dim_changed
    \/ Ev_second_display_blue_light_changed
    \/ Ev_second_display_blue_intensity_changed
    \/ RunDeferred
    \/ Quit
    \/ Launch

Spec ==
    Init /\ [][Next]_vars

\* hotkeys
NextHotkey ==
    \/ Key_alt_d
    \/ Key_alt_r
    \/ Key_alt_g
    \/ Dispatch
    \/ Tick_restore_transparency
    \/ Ev_toggle_dimmer
    \/ Ev_dim_changed
    \/ Ev_blue_light_changed

SpecHotkey ==
    Init /\ [][NextHotkey]_vars

\* schedule
NextSchedule ==
    \/ Ev_apply_preset
    \/ Ev_apply_custom_schedule
    \/ Ev_toggle_schedule_control
    \/ Tick_check_schedule
    \/ AdvanceClock
    \/ Ev_toggle_dimmer
    \/ Ev_dim_changed
    \/ Ev_blue_light_changed

SpecSchedule ==
    Init /\ [][NextSchedule]_vars

\* schedule across a restart
NextScheduleRestart ==
    \/ Ev_apply_preset
    \/ Ev_toggle_schedule_control
    \/ Tick_check_schedule
    \/ AdvanceClock
    \/ Ev_toggle_dimmer
    \/ RunDeferred
    \/ Quit
    \/ Launch

SpecScheduleRestart ==
    Init /\ [][NextScheduleRestart]_vars

\* the program runs at any instant of the timeline
InitWindow ==
    /\ alive = TRUE
    /\ self = InitSelf
    /\ state_file = NoFile
    /\ screens = 1
    /\ clock \in DOMAIN Timeline
    /\ queue = <<>>
    /\ deferred = <<>>
    /\ msecs = 0
    /\ profiles_file = NoFile
    /\ ev = [op |-> "__init__", thread |-> "main", was_active |-> FALSE]

\* the in-window tests and the remaining time
NextWindow ==
    \/ Ev_apply_preset
    \/ Ev_apply_custom_schedule
    \/ Ev_toggle_schedule_control
    \/ Tick_check_schedule
    \/ Tick_update_time_remaining

SpecWindow ==
    InitWindow /\ [][NextWindow]_vars

\* the schedule and the toggle button at a fixed instant
NextManual ==
    \/ Ev_apply_preset
    \/ Ev_toggle_schedule_control
    \/ Tick_check_schedule
    \/ Ev_toggle_dimmer

SpecManual ==
    InitWindow /\ [][NextManual]_vars

\* a state file holding nothing but a dim level
DimFile(percent) ==
    [exists |-> TRUE, current_dim |-> percent]

\* dim levels a state file may hold, inside and outside the slider's range
FileDims ==
    {0 - 5, 25, 96, 120}

\* the program is not running and the state file holds some dim level
InitDimSlider ==
    /\ alive = FALSE
    /\ self = InitSelf
    /\ state_file \in { DimFile(p) : p \in FileDims }
    /\ screens \in 1..MaxScreens
    /\ clock = 1
    /\ queue = <<>>
    /\ deferred = <<>>
    /\ msecs = 0
    /\ profiles_file = NoFile
    /\ ev = [op |-> "quit_app", thread |-> "main", was_active |-> FALSE]

\* the dim slider over its whole range
NextDimSlider ==
    \/ Launch
    \/ Ev_toggle_dimmer
    \/ Ev_blue_light_changed
    \/ Ev_dim_dragged

SpecDimSlider ==
    InitDimSlider /\ [][NextDimSlider]_vars

\* the blue-light intensity slider over its whole range
NextTintSlider ==
    \/ Ev_toggle_dimmer
    \/ Ev_blue_light_changed
    \/ Ev_blue_intensity_dragged

SpecTintSlider ==
    Init /\ [][NextTintSlider]_vars

\* quick timer
NextTimer ==
    \/ Ev_start_timer
    \/ Tick_check_timer
    \/ AdvanceClock
    \/ Ev_toggle_dimmer
    \/ Ev_dim_changed
    \/ Ev_blue_light_changed

SpecTimer ==
    Init /\ [][NextTimer]_vars

\* quick timer alone: the dimmer is turned On by a timer start only and
\* Off by the expiry only, so it is On exactly while a quick timer runs
NextQuickTimer ==
    \/ Ev_start_timer
    \/ Tick_check_timer
    \/ AdvanceClock
    \/ Ev_dim_changed
    \/ Ev_blue_light_changed

SpecQuickTimer ==
    Init /\ [][NextQuickTimer]_vars

\* quick timer and the user's switch, with time passing and the running poll
\* timer firing every ten seconds
NextTimerFair ==
    \/ Ev_start_timer
    \/ Tick_check_timer
    \/ AdvanceClock
    \/ Ev_toggle_dimmer

SpecTimerFair ==
    /\ Init
    /\ [][NextTimerFair]_vars
    /\ WF_vars(AdvanceClock)
    /\ WF_vars(Tick_check_timer)

\* blink reminder
NextBlinker ==
    \/ Ev_toggle_blinker
    \/ Tick_blinker_rain_effect
    \/ Ev_trigger_immediate_rain
    \/ Ev_emoji_blink_changed
    \/ Ev_rain_interval_changed
    \/ Ev_second_display_changed

SpecBlinker ==
    Init /\ [][NextBlinker]_vars

\* rain animation
NextRain ==
    \/ Ev_trigger_immediate_rain
    \/ Tick_update_rain
    \/ AdvanceMsecs
    \/ Ev_rain_duration_changed
    \/ Ev_second_display_changed

SpecRain ==
    Init /\ [][NextRain]_vars

\* the blinker across a restart of the program
NextBlinkerRestart ==
    \/ Ev_toggle_blinker
    \/ Ev_rain_interval_changed
    \/ Tick_blinker_rain_effect
    \/ Quit
    \/ Launch

SpecBlinkerRestart ==
    Init /\ [][NextBlinkerRestart]_vars

\* the second display with the user's switch and the schedule
NextSecond ==
    \/ Ev_second_display_changed
    \/ Ev_toggle_dimmer
    \/ Ev_apply_preset
    \/ Ev_toggle_schedule_control
    \/ Tick_check_schedule
    \/ AdvanceClock

SpecSecond ==
    Init /\ [][NextSecond]_vars

\* the schedule switch with everything that turns the dimmer On: the user,
\* the schedule (17:00 lies inside the all-day window and outside the
\* all-night one) and the quick timer, at one instant, before any deadline
NextSwitch ==
    \/ Ev_toggle_dimmer
    \/ Ev_apply_preset
    \/ Ev_toggle_schedule_control
    \/ Tick_check_schedule
    \/ Ev_start_timer

SpecSwitch ==
    Init /\ [][NextSwitch]_vars

\* opacity transitions of the overlays
NextTransition ==
    \/ Ev_toggle_dimmer
    \/ Ev_dim_changed
    \/ Ev_blue_light_changed
    \/ Ev_second_display_changed
    \/ \E i \in 0..(MaxScreens - 1) : AnimationFinished(i)

SpecTransition ==
    Init /\ [][NextTransition]_vars

\* every running opacity animation reaches its end after its 400 ms
SpecTransitionFair ==
    /\ SpecTransition
    /\ \A i \in 0..(MaxScreens - 1) : WF_vars(AnimationFinished(i))

\* the rain animation frame by frame
NextAnimation ==
    \/ Ev_trigger_immediate_rain
    \/ Tick_update_rain
    \/ AdvanceFrame

SpecAnimation ==
    Init /\ [][NextAnimation]_vars

\* rain animation with time passing and every running animation timer firing
SpecRainFair ==
    /\ Init
    /\ [][NextRain]_vars
    /\ WF_vars(AdvanceMsecs)
    /\ WF_vars(Tick_update_rain)

\* persisted settings across a restart
NextPersist ==
    \/ Ev_toggle_dimmer
    \/ Ev_blue_light_changed
    \/ Ev_second_display_changed
    \/ Ev_apply_preset
    \/ Ev_toggle_schedule_control
    \/ Ev_toggle_blinker
    \/ RunDeferred
    \/ Quit
    \/ Launch

SpecPersist ==
    Init /\ [][NextPersist]_vars

\* a controller with no persisted value at its default
SampleControl ==
    [InitSelf EXCEPT !.current_dim = 90,
                     !.dimmer_active = TRUE,
                     !.blue_light_active = TRUE,
                     !.blue_intensity = 100,
                     !.second_display_enabled = TRUE,
                     !.second_display_dim = 50,
                     !.second_display_blue_light = TRUE,
                     !.second_display_blue_intensity_is_widget = FALSE,
                     !.second_display_blue_intensity = 100,
                     !.schedule_enabled = TRUE,
                     !.schedule_time_set = TRUE,
                     !.schedule_dim_value = 90,
                     !.start_time = QTime(18, 0),
                     !.end_time = QTime(6, 0),
                     !.blinker_active = TRUE,
                     !.emoji_blink_enabled = TRUE,
                     !.text_blink_enabled = FALSE,
                     !.rain_interval_minutes = 1,
                     !.rain_duration_seconds = 1]

\* the keys of the state file, by the section of save_state that writes them
KeyGroups ==
    { {"current_dim", "dimmer_active", "blue_light_active", "blue_intensity"},
      {"second_display_enabled", "second_display_dim",
       "second_display_blue_light", "second_display_blue_intensity"},
      {"schedule_enabled", "schedule_time_set", "schedule_dim_value",
       "start_time", "end_time"},
      {"blinker_active", "emoji_blink_enabled", "text_blink_enabled",
       "rain_interval_minutes", "rain_duration_seconds"} }

\* the file save_state writes for SampleControl, cut down to some keys
PartialFile(keys) ==
    [k \in {"exists"} \cup keys |-> save_state(SampleControl)[k]]

\* what the program may find in Config.STATE_FILE when it starts
StateFiles ==
    {NoFile, Malformed, Undecodable}
        \cup { PartialFile(UNION groups) : groups \in SUBSET KeyGroups }
        \cup { PartialFile({k}) :
                   k \in {"dimmer_active", "blue_light_active", "start_time"} }

\* the program is not running and some state file is on disk
InitLoad ==
    /\ alive = FALSE
    /\ self = InitSelf
    /\ state_file \in StateFiles
    /\ screens \in 1..MaxScreens
    /\ clock = 1
    /\ queue = <<>>
    /\ deferred = <<>>
    /\ msecs = 0
    /\ profiles_file = NoFile
    /\ ev = [op |-> "quit_app", thread |-> "main", was_active |-> FALSE]

\* start-up from a state file
NextLoad ==
    \/ Launch
    \/ RunDeferred
    \/ Quit

SpecLoad ==
    InitLoad /\ [][NextLoad]_vars

\* what the program may find in Config.PROFILES_FILE when it starts
ProfileFiles ==
    { NoFile,
      MalformedProfiles,
      ProfilesFile(_get_defaults),
      ProfilesFile([name \in {"Work"} |-> Profile(40, FALSE, 0)]) }

\* the program is not running and some profiles file is on disk
InitProfiles ==
    /\ alive = FALSE
    /\ self = InitSelf
    /\ state_file = NoFile
    /\ screens \in 1..MaxScreens
    /\ clock = 1
    /\ queue = <<>>
    /\ deferred = <<>>
    /\ msecs = 0
    /\ profiles_file \in ProfileFiles
    /\ ev = [op |-> "quit_app", thread |-> "main", was_active |-> FALSE]

\* start-up and shutdown around the profiles file
NextProfiles ==
    \/ Launch
    \/ RunDeferred
    \/ Ev_toggle_dimmer
    \/ Ev_blue_light_changed
    \/ Quit

SpecProfiles ==
    InitProfiles /\ [][NextProfiles]_vars

----------------------------------------------------------------------------
(* Dimmer toggle: C1, C2, C3                                               *)

\* the tint a display's overlay is painted with
TintOf(on, intensity) ==
    IF on THEN _calculate_blue_light_color(intensity) ELSE NoTint

\* C1: after an Off->On transition the dimmer is active, the state file holds
\* the current state, the primary overlay is driven with the current dim
\* percent (with the tint colour when blue-light is On), and the overlay of an
\* enabled second display is driven with the second display's dim percent.
C1_TurnOnDrivesDimPercent ==
    [][ (alive /\ alive' /\ ~ self.dimmer_active /\ self'.dimmer_active) =>
            /\ state_file' = save_state(self')
            /\ 0 \in DOMAIN self'.overlays
            /\ self'.overlays[0].driven
            /\ self'.overlays[0].pct = self'.current_dim
            /\ self'.overlays[0].tint =
                   TintOf(self'.blue_light_active, self'.blue_intensity)
            /\ (1 \in _get_enabled_screens(self')) =>
                   /\ 1 \in DOMAIN self'.overlays
                   /\ self'.overlays[1].driven
                   /\ self'.overlays[1].pct = self'.second_display_dim
                   /\ self'.overlays[1].tint =
                          TintOf(self'.second_display_blue_light,
                                 self'.second_display_blue_intensity)
      ]_vars

\* C1: the dimmer has just been turned On with blue-light On, and the primary
\* overlay is at the tint-only level, not at the dim percent
C1_TurnedOnAtTintOnlyLevel ==
    /\ alive
    /\ ev.op = "_toggle_dimmer"
    /\ ~ ev.was_active
    /\ self.dimmer_active
    /\ self.blue_light_active
    /\ self.blue_intensity = 50
    /\ self.current_dim = 25
    /\ self.overlays[0].pct = 6

\* C2: after an On->Off transition the dimmer is inactive and, for each enabled
\* display, the overlay is kept and driven with the tint-only level and the
\* tint colour when that display's tint is On, and is closed and removed from
\* the overlay set when the tint is Off.
C2_TurnOffKeepsTintOnly ==
    [][ (alive /\ alive' /\ self.dimmer_active /\ ~ self'.dimmer_active) =>
            /\ IF self.blue_light_active
               THEN /\ 0 \in DOMAIN self'.overlays
                    /\ self'.overlays[0].pct =
                           (self.blue_intensity * 12) \div 100
                    /\ self'.overlays[0].tint =
                           _calculate_blue_light_color(self.blue_intensity)
               ELSE 0 \notin DOMAIN self'.overlays
            /\ (1 \in _get_enabled_screens(self)) =>
                   IF self.second_display_blue_light
                   THEN /\ 1 \in DOMAIN self'.overlays
                        /\ self'.overlays[1].pct =
                               (self.second_display_blue_intensity * 12) \div 100
                        /\ self'.overlays[1].tint =
                               _calculate_blue_light_color(
                                   self.second_display_blue_intensity)
                   ELSE 1 \notin DOMAIN self'.overlays
      ]_vars

\* C2: the dimmer has just been turned Off on two enabled displays, the first
\* with its tint On (overlay kept) and the second with its tint Off (closed)
C2_TurnedOffWithTint ==
    /\ alive
    /\ ev.op = "_toggle_dimmer"
    /\ ev.was_active
    /\ ~ self.dimmer_active
    /\ self.blue_light_active
    /\ self.blue_intensity = 100
    /\ DOMAIN self.overlays = {0}
    /\ self.overlays[0].pct = 12
    /\ self.second_display_enabled
    /\ screens > 1
    /\ ~ self.second_display_blue_light

\* C3: between events the in-progress flag is false; a toggle request made
\* while the flag is set (at the start of a transition, or at its end before
\* `finally`) returns with nothing changed; the flag is cleared when a
\* transition returns, with or without an exception; and a request that has
\* been accepted has flipped dimmer_active once.
C3_ToggleGuard ==
    alive =>
        LET c0 == [Enter EXCEPT !.toggle_in_progress = TRUE]
            mid == IF ~ c0.dimmer_active
                   THEN _toggle_dimmer_on(c0)
                   ELSE _toggle_dimmer_off(c0)
            r == _toggle_dimmer(Enter)
        IN  /\ ~ self.toggle_in_progress
            /\ _toggle_dimmer(c0) = c0
            /\ _toggle_dimmer(mid) = mid
            /\ ~ r.toggle_in_progress
            /\ ~ r.exc => r.dimmer_active = ~ self.dimmer_active
            /\ ev.op = "_toggle_dimmer" => self.dimmer_active = ~ ev.was_active

\* C3: a second accepted request has turned the dimmer Off again and the flag
\* is clear
C3_ToggledTwice ==
    /\ alive
    /\ ev.op = "_toggle_dimmer"
    /\ ev.was_active
    /\ ~ self.dimmer_active
    /\ ~ self.toggle_in_progress
    /\ state_file.exists
    /\ state_file.dimmer_active

----------------------------------------------------------------------------
(* Hotkeys: C4                                                             *)

\* the request each hotkey callback posts
RequestOf(op) ==
    CASE op = "_hotkey_callback" -> "_toggle_dimmer"
      [] op = "_blinker_hotkey_callback" -> "_toggle_blinker"
      [] op = "_gesture_hotkey_callback" -> "_temporarily_hide_overlay"

\* C4: a step of the keyboard listener's thread leaves the controller, its
\* overlays and the state file as they were and appends exactly one request,
\* the one of its hotkey, to the event loop's queue; a step of the event-loop
\* thread that takes from the queue takes the oldest request only and leaves
\* what running that request leaves.
C4_HotkeysOnlyEnqueue ==
    [][ /\ ev'.thread = "listener" =>
               /\ self' = self
               /\ state_file' = state_file
               /\ alive' = alive
               /\ queue' = Append(queue, RequestOf(ev'.op))
        /\ (ev'.thread = "main" /\ alive' /\ queue' # queue) =>
               /\ queue # <<>>
               /\ queue' = Tail(queue)
               /\ ev'.op = Head(queue)
               /\ self' = Attrs(run_posted(Enter, Head(queue)))
      ]_vars

\* C4: the event loop has run a posted blinker toggle (the blinker is switched
\* only by that request here) while another request waits in the queue
C4_PostedRequestRun ==
    /\ alive
    /\ ev.thread = "main"
    /\ ev.op = "_toggle_blinker"
    /\ self.blinker_active
    /\ queue = <<"_toggle_dimmer">>
    /\ ~ self.dimmer_active

----------------------------------------------------------------------------
(* Schedule: C5 .. C9                                                      *)

\* the clock is inside the schedule window
InWindow ==
    in_schedule(CurrentTime, self.start_time, self.end_time)

\* the clock has moved from an instant outside the window to one inside it
EnteredWindow ==
    /\ clock > 1
    /\ ~ in_schedule(Timeline[clock - 1] % DaySeconds,
                     self.start_time, self.end_time)
    /\ InWindow

\* the clock has moved from an instant inside the window to one outside it
LeftWindow ==
    /\ clock > 1
    /\ in_schedule(Timeline[clock - 1] % DaySeconds,
                   self.start_time, self.end_time)
    /\ ~ InWindow

\* C5: with the schedule enabled and a window set, a schedule tick inside the
\* window while the dimmer is Off leaves the dimmer On with the dim percent
\* equal to the schedule level, and the primary overlay driven.
C5_TickInWindowTurnsOn ==
    [][ ( /\ Tick_check_schedule
          /\ self.schedule_enabled
          /\ self.schedule_time_set
          /\ InWindow
          /\ ~ self.dimmer_active ) =>
            /\ alive'
            /\ self'.dimmer_active
            /\ self'.current_dim = self.schedule_dim_value
            /\ self'.dim_slider = self.schedule_dim_value
            /\ 0 \in DOMAIN self'.overlays
      ]_vars

\* C5: window 18:00-06:00 at 90%, the time is 19:00, and the tick has turned
\* the dimmer On at 90%
C5_AllNightAt1900 ==
    /\ alive
    /\ ev.op = "_check_schedule"
    /\ ~ ev.was_active
    /\ self.schedule_enabled
    /\ self.start_time = QTime(18, 0)
    /\ self.end_time = QTime(6, 0)
    /\ self.schedule_dim_value = 90
    /\ CurrentTime = QTime(19, 0) + 30
    /\ self.dimmer_active
    /\ self.current_dim = 90
    /\ self.tray_message = "Schedule Auto-Started"

\* C6: when the clock has entered the window since the last tick (that tick
\* announced the schedule's end and nothing but the clock has moved since) and
\* the dimmer is On at a percent other than the schedule level, the schedule
\* tick leaves the dimmer On at the schedule level.
C6_TickInWindowForcesLevel ==
    [][ ( /\ Tick_check_schedule
          /\ self.schedule_enabled
          /\ self.schedule_time_set
          /\ ev.op = "_check_schedule"
          /\ self.tray_message = "Schedule Ended"
          /\ EnteredWindow
          /\ self.dimmer_active
          /\ self.current_dim # self.schedule_dim_value ) =>
            /\ self'.dimmer_active
            /\ self'.current_dim = self.schedule_dim_value
      ]_vars

\* C6: the clock has entered the window 18:00-06:00, the tick has announced
\* the schedule's start, and the dimmer is still On at 25%, not at 90%
C6_StillAtOldLevel ==
    /\ alive
    /\ ev.op = "_check_schedule"
    /\ ev.was_active
    /\ self.schedule_enabled
    /\ EnteredWindow
    /\ self.tray_message = "Schedule Auto-Started"
    /\ self.dimmer_active
    /\ self.schedule_dim_value = 90
    /\ self.current_dim = 25

C8_EnableWithoutWindowRejected ==
    [][ (Ev_toggle_schedule_control /\ ~ self.schedule_time_set) =>
            /\ alive'
            /\ self' = [self EXCEPT !.tray_message = "No Schedule Time Set"]
            /\ ~ self'.schedule_enabled
            /\ ~ self'.schedule_toggle_in_progress
            /\ state_file' = state_file
      ]_vars

\* C8: the request has been refused while the dimmer is On
C8_Refused ==
    /\ alive
    /\ ev.op = "_toggle_schedule_control"
    /\ self.tray_message = "No Schedule Time Set"
    /\ ~ self.schedule_time_set
    /\ ~ self.schedule_enabled
    /\ ~ self.schedule_toggle_in_progress
    /\ self.dimmer_active

\* C9: applying a custom schedule with equal start and end time shows the
\* warning box and changes nothing else; and whenever a window is set, its
\* start and end time differ.
C9_EqualTimesRejected ==
    /\ [](self.schedule_time_set => self.start_time # self.end_time)
    /\ [][ \A t \in {QTime(22, 0), QTime(6, 0)}, d \in CustomDims :
               Handle("_apply_custom_schedule",
                      _apply_custom_schedule(Enter, t, t, d)) =>
                   /\ self' = [self EXCEPT !.warning_box = "Invalid Time"]
                   /\ state_file' = state_file
         ]_vars

\* C9: a custom schedule with equal times has been refused after a preset had
\* set the window, which is as the preset left it
C9_RefusedAfterPreset ==
    /\ alive
    /\ ev.op = "_apply_custom_schedule"
    /\ self.warning_box = "Invalid Time"
    /\ self.tray_message = "Preset Set"
    /\ self.schedule_time_set
    /\ self.start_time = QTime(18, 0)
    /\ self.end_time = QTime(6, 0)
    /\ self.schedule_dim_value = 90

----------------------------------------------------------------------------
(* Quick timer: C10                                                        *)

\* C10: starting a quick timer of m minutes leaves the dimmer On, the dim
\* percent as it was, the deadline at now + m minutes, timer_active true and
\* the poll timer running; a dimmer that was On keeps its overlays.
C10_StartTimer ==
    [][ \A m \in TimerMinutes :
            Handle("_start_timer", _start_timer(Enter, m)) =>
                /\ alive'
                /\ self'.dimmer_active
                /\ self'.current_dim = self.current_dim
                /\ self'.timer_active
                /\ self'.timer_minutes = m
                /\ self'.timer_end_time = Now + m * 60
                /\ self'.timer_timer
                /\ 0 \in DOMAIN self'.overlays
                /\ self.dimmer_active => self'.overlays = self.overlays
      ]_vars

\* C10: a five-minute timer started at 17:03:30 with the dimmer Off at 90% has
\* turned the dimmer On at 90% with the deadline at 17:08:30
C10_TimerStarted ==
    /\ alive
    /\ ev.op = "_start_timer"
    /\ ~ ev.was_active
    /\ self.dimmer_active
    /\ self.current_dim = 90
    /\ self.timer_active
    /\ self.timer_minutes = 5
    /\ Now = QTime(17, 3) + 30
    /\ self.timer_end_time = QTime(17, 8) + 30
    /\ self.timer_timer

\* C11: a started quick timer expires (with time passing and the poll timer
\* firing); the timer check at or after the deadline leaves the dimmer Off,
\* timer_active false, timer_minutes 0, no deadline and the poll timer
\* stopped; a timer check before the deadline changes nothing.
C11_TimerExpires ==
    /\ self.timer_active ~> ~ self.timer_active
    /\ [][ ( /\ Tick_check_timer
             /\ self.timer_active
             /\ self.timer_end_time # NoTime ) =>
               IF Now >= self.timer_end_time
               THEN /\ alive'
                    /\ ~ self'.dimmer_active
                    /\ ~ self'.timer_active
                    /\ self'.timer_minutes = 0
                    /\ self'.timer_end_time = NoTime
                    /\ ~ self'.timer_timer
                    /\ self'.current_dim = self.current_dim
               ELSE /\ self' = self
                    /\ state_file' = state_file
         ]_vars

\* C11: a five-minute timer has expired and its check has turned the dimmer
\* Off and cleared the timer
C11_TimerEnded ==
    /\ alive
    /\ ev.op = "_check_timer"
    /\ ev.was_active
    /\ self.tray_message = "Timer Ended"
    /\ ~ self.dimmer_active
    /\ ~ self.timer_active
    /\ self.timer_minutes = 0
    /\ self.timer_end_time = NoTime
    /\ ~ self.timer_timer

\* C12: after a manual On->Off toggle while a quick timer is running,
\* timer_active is false and the deadline is cleared.
C12_ManualOffClearsTimer ==
    [][ ( /\ Ev_toggle_dimmer
          /\ self.dimmer_active
          /\ self.timer_active ) =>
            /\ ~ self'.timer_active
            /\ self'.timer_end_time = NoTime
      ]_vars

\* C12: the user has turned the dimmer Off by hand and the quick timer is
\* still running with its deadline
C12_TimerSurvivesManualOff ==
    /\ alive
    /\ ev.op = "_toggle_dimmer"
    /\ ev.was_active
    /\ ~ self.dimmer_active
    /\ self.timer_active
    /\ self.timer_timer
    /\ self.timer_end_time = QTime(17, 5) + 30

----------------------------------------------------------------------------
(* Blink reminder and rain animation: C13, C14                             *)

\* the displays the program treats as enabled
EnabledDisplays ==
    IF self.second_display_enabled /\ screens > 1 THEN {0, 1} ELSE {0}

\* after the step, a rain animation that started now runs on display i
RainStartedOn(i) ==
    /\ i \in DOMAIN self'.rain_overlays
    /\ self'.rain_overlays[i].rain_timer
    /\ self'.rain_overlays[i].visible
    /\ self'.rain_overlays[i].start_time = msecs
    /\ Len(self'.rain_overlays[i].rain_items) = ItemCount

\* C13: when the interval timer of an active blinker expires, a rain
\* animation starts on every enabled display and the interval timer runs
\* again with the interval set at that moment; the test button, pressed
\* while the blinker is inactive, starts the same rain and leaves the
\* interval timer stopped
C13_BlinkerExpiry ==
    /\ [][ ( /\ Tick_blinker_rain_effect
             /\ self.blinker_active ) =>
                /\ alive'
                /\ \A i \in EnabledDisplays : RainStartedOn(i)
                /\ self'.blinker_active
                /\ self'.blinker_timer
                /\ self'.blinker_timer_interval
                       = self.rain_interval_minutes * 60 * 1000 ]_vars
    /\ [][ ( /\ Ev_trigger_immediate_rain
             /\ ~ self.blinker_active ) =>
                /\ alive'
                /\ \A i \in EnabledDisplays : RainStartedOn(i)
                /\ ~ self'.blinker_active
                /\ ~ self'.blinker_timer ]_vars

\* the blinker's timer expired with two displays enabled and the interval
\* set to one minute
C13_RainOnBothDisplays ==
    /\ ev.op = "_blinker_rain_effect"
    /\ self.blinker_active
    /\ self.blinker_timer
    /\ self.rain_interval_minutes = 1
    /\ self.blinker_timer_interval = 60000
    /\ self.second_display_enabled
    /\ DOMAIN self.rain_overlays = {0, 1}
    /\ \A i \in {0, 1} : self.rain_overlays[i].rain_timer
    /\ self.tray_message = "Blink Reminder: Text"

\* the rain animation of display i has ended
RainEnded(i) ==
    /\ ~ self.rain_overlays[i].rain_timer
    /\ self.rain_overlays[i].rain_items = <<>>
    /\ ~ self.rain_overlays[i].visible

\* C14: every rain animation ends: the first tick that finds more than the
\* rain duration elapsed since the start stops the animation timer, clears
\* the items and hides the overlay; an earlier tick keeps the animation
\* running, and while the timer is stopped the items do not change
C14_RainTerminates ==
    /\ []<>(\A i \in DOMAIN self.rain_overlays : RainEnded(i))
    /\ [][ Tick_update_rain =>
            \E i \in DOMAIN self.rain_overlays :
                /\ self.rain_overlays[i].rain_timer
                /\ alive'
                /\ DOMAIN self'.rain_overlays = DOMAIN self.rain_overlays
                /\ \A j \in DOMAIN self.rain_overlays \ {i} :
                       self'.rain_overlays[j] = self.rain_overlays[j]
                /\ IF msecs - self.rain_overlays[i].start_time
                          > self.rain_overlays[i].rain_duration
                   THEN /\ ~ self'.rain_overlays[i].rain_timer
                        /\ self'.rain_overlays[i].rain_items = <<>>
                        /\ ~ self'.rain_overlays[i].visible
                   ELSE /\ self'.rain_overlays[i].rain_timer
                        /\ self'.rain_overlays[i].visible
                        /\ Len(self'.rain_overlays[i].rain_items)
                               = Len(self.rain_overlays[i].rain_items) ]_vars
    /\ [][ \A i \in DOMAIN self.rain_overlays :
              ( /\ ~ self.rain_overlays[i].rain_timer
                /\ i \in DOMAIN self'.rain_overlays
                /\ ~ self'.rain_overlays[i].rain_timer ) =>
                    self'.rain_overlays[i].rain_items
                        = self.rain_overlays[i].rain_items ]_vars

\* a seven-second rain on the primary display was ended by a tick
C14_RainEnded ==
    /\ ev.op = "_update_rain"
    /\ 0 \in DOMAIN self.rain_overlays
    /\ RainEnded(0)
    /\ self.rain_overlays[0].rain_duration = 7000
    /\ msecs - self.rain_overlays[0].start_time > 7000

----------------------------------------------------------------------------
(* Persistence: C15, C16, C17                                              *)

\* C15: every step of the running program that changes the value of a
\* persisted field leaves a state file that holds the in-memory values of
\* all persisted fields
C15_ChangeIsPersisted ==
    [][ ( /\ alive
          /\ alive'
          /\ save_state(self') # save_state(self) ) =>
              state_file' = save_state(self') ]_vars

\* the dimmer was switched Off by hand and the file still says it is On
C15_FileStaleAfterOff ==
    /\ alive
    /\ ev.op = "_toggle_dimmer"
    /\ ev.was_active
    /\ ~ self.dimmer_active
    /\ state_file.exists
    /\ state_file.dimmer_active
    /\ state_file # save_state(self)

\* the deferred restores run one after the other
RECURSIVE RunRestores(_, _)
RunRestores(c, calls) ==
    IF calls = <<>>
    THEN c
    ELSE RunRestores(run_deferred(c, Head(calls)), Tail(calls))

\* a fresh controller that loaded the file and ran its deferred restores
Restarted(file) ==
    LET loaded == _load_saved_state(InitSelf, file)
    IN  RunRestores(loaded @@ [state_file |-> file, exc |-> FALSE],
                    load_deferred(loaded, file))

\* the integer the second display's tint intensity stands for
SecondIntensityOf(c) ==
    IF c.second_display_blue_intensity_is_widget
    THEN c.second_display_blue_intensity_widget
    ELSE c.second_display_blue_intensity

\* two controllers agree on every persisted key, times at minute precision
SamePersisted(a, b) ==
    /\ \A k \in { "current_dim", "dimmer_active", "blue_light_active",
                   "blue_intensity", "second_display_enabled",
                   "second_display_dim", "second_display_blue_light",
                   "schedule_enabled", "schedule_time_set",
                   "schedule_dim_value", "blinker_active",
                   "emoji_blink_enabled", "text_blink_enabled",
                   "rain_interval_minutes", "rain_duration_seconds" } :
          a[k] = b[k]
    /\ SecondIntensityOf(a) = SecondIntensityOf(b)
    /\ toString(a.start_time) = toString(b.start_time)
    /\ toString(a.end_time) = toString(b.end_time)

DefaultsUntouched(c) ==
    /\ ~ c.dimmer_active
    /\ c.current_dim = 25
    /\ ~ c.blue_light_active
    /\ ~ c.second_display_enabled
    /\ ~ c.schedule_enabled
    /\ ~ c.schedule_time_set
    /\ c.start_time = NoTime
    /\ c.end_time = NoTime
    /\ ~ c.blinker_active
    /\ c.rain_interval_minutes = 10
    /\ c.rain_duration_seconds = 7

\* the file is there and is a JSON text
ValidJson(file) ==
    file.exists /\ ~ Has(file, "malformed") /\ ~ Has(file, "undecodable")

\* what a start leaves when it fell back to the defaults: the program runs;
\* without a valid file every default is untouched and no restore is
\* pending; with a valid file every key it lacks has its default
LaunchFallsBack ==
    /\ alive'
    /\ ~ ValidJson(state_file) =>
           /\ self' = InitSelf
           /\ DefaultsUntouched(self')
           /\ deferred' = <<>>
    /\ ValidJson(state_file) =>
           /\ \A k \in (UNION KeyGroups)
                         \ {"dimmer_active", "second_display_blue_intensity"} :
                  ~ Has(state_file, k) => self'[k] = InitSelf[k]
           /\ ~ Has(state_file, "second_display_blue_intensity") =>
                  SecondIntensityOf(self') = SecondIntensityOf(InitSelf)
           /\ ~ Has(state_file, "dimmer_active") =>
                  "dimmer" \notin { deferred'[n] : n \in DOMAIN deferred' }

\* C17: a start with a state file that is missing or is not valid JSON does
\* not fail and leaves every default untouched; a start with a valid file
\* leaves the default of every key the file lacks
C17_LoadFallsBack ==
    [][ Launch => LaunchFallsBack ]_vars

\* the start-up failed on a state file whose bytes do not decode
C17_StartFailedOnUndecodable ==
    /\ ~ alive
    /\ ev.op = "__init__"
    /\ state_file = Undecodable

----------------------------------------------------------------------------
(* Profiles: C18                                                           *)

\* the profiles file cannot be read: it is missing or is not valid JSON
NoProfilesOnDisk ==
    ~ profiles_file.exists \/ "malformed" \in DOMAIN profiles_file

\* the four default profiles, as the documentation lists them
FourDefaults ==
    ( "Night Mode" :> <<85, TRUE, 60>> ) @@ ( "Reading" :> <<60, FALSE, 0>> )
        @@ ( "Gaming" :> <<50, FALSE, 0>> ) @@ ( "Movie" :> <<80, TRUE, 30>> )

\* C18: a start that finds the profiles file missing or malformed ends with
\* exactly the four default profiles in memory and with a profiles file
\* that holds the same four
C18_DefaultsWritten ==
    [][ ( Launch /\ NoProfilesOnDisk /\ alive' ) =>
            /\ self'.profile_manager._profiles = FourDefaults
            /\ profiles_file'.exists
            /\ "malformed" \notin DOMAIN profiles_file'
            /\ [name \in DOMAIN profiles_file'.data |->
                    ProfileOf(profiles_file'.data[name])] = FourDefaults ]_vars

\* the program started on a malformed profiles file, holds the four defaults
\* and left the file as it was
C18_FileLeftMalformed ==
    /\ alive
    /\ ev.op = "__init__"
    /\ self.profile_manager._profiles = FourDefaults
    /\ ~ self.profile_manager._cache_dirty
    /\ profiles_file = MalformedProfiles

----------------------------------------------------------------------------
(* Overlays and tint: C19, C20                                             *)

\* C19: between events an overlay exists for display 0 only if the dimmer
\* or the primary blue-light is On, and for display 1 only if the second
\* display is enabled and the dimmer or its own blue-light is On
C19_OverlayOnlyIfNeeded ==
    alive =>
        /\ 0 \in DOMAIN self.overlays =>
               self.dimmer_active \/ self.blue_light_active
        /\ 1 \in DOMAIN self.overlays =>
               /\ self.second_display_enabled
               /\ self.dimmer_active \/ self.second_display_blue_light

\* the second display's slider was moved while the dimmer and both tints
\* were Off, and display 1 has an overlay dimmed to the slider's value
C19_SecondOverlayWithDimmerOff ==
    /\ alive
    /\ ev.op = "_on_second_display_dim_changed"
    /\ ~ self.dimmer_active
    /\ ~ self.blue_light_active
    /\ ~ self.second_display_blue_light
    /\ self.second_display_enabled
    /\ 1 \in DOMAIN self.overlays
    /\ self.overlays[1].pct = 50

\* the opacity and tint the dimmer's rule gives a display, or <<>> when the
\* rule leaves the display without an overlay
RuleFor(c, i) ==
    LET on == IF i = 0 THEN c.blue_light_active ELSE c.second_display_blue_light
        intensity == IF i = 0 THEN c.blue_intensity ELSE SecondIntensityOf(c)
        dim == IF i = 0 THEN c.current_dim ELSE c.second_display_dim
    IN  IF c.dimmer_active
        THEN <<dim, TintOf(on, intensity)>>
        ELSE IF on
             THEN <<TintOnlyOpacity(intensity), TintOf(on, intensity)>>
             ELSE <<>>

\* the opacity and tint a display is showing, or <<>> without an overlay
Shown(c, i) ==
    IF i \in DOMAIN c.overlays
    THEN <<c.overlays[i].pct, c.overlays[i].tint>>
    ELSE <<>>

\* a blue-light checkbox or intensity slider, of either display, was changed
TintChanged ==
    \/ Ev_blue_light_changed
    \/ Ev_blue_intensity_changed
    \/ Ev_second_display_blue_light_changed
    \/ Ev_second_display_blue_intensity_changed

\* C20: after the blue-light tint was switched or its intensity changed (and
\* the handler returned), the overlay of every enabled display shows what
\* the dimmer's opacity and tint rule gives for the new settings
C20_TintChangeRecomputesAll ==
    [][ ( TintChanged /\ alive' ) =>
            \A i \in (IF self'.second_display_enabled /\ screens > 1
                       THEN {0, 1} ELSE {0}) :
                Shown(self', i) = RuleFor(self', i) ]_vars

\* the primary blue-light was switched Off with the dimmer Off: display 0
\* lost its overlay, the enabled second display kept the one it got while
\* the primary blue-light was On
C20_SecondDisplayNotRecomputed ==
    /\ alive
    /\ ev.op = "_on_blue_light_changed"
    /\ ~ self.dimmer_active
    /\ ~ self.blue_light_active
    /\ self.second_display_enabled
    /\ ~ self.second_display_blue_light
    /\ 0 \notin DOMAIN self.overlays
    /\ 1 \in DOMAIN self.overlays
    /\ Shown(self, 1) = <<25, NoTint>>

----------------------------------------------------------------------------
(* Schedule after a restart: C21                                           *)

\* C21: a start that loads a state with the schedule enabled and its window
\* set leaves the periodic schedule tick running, with no user action
C21_ScheduleTickRestored ==
    [][ ( /\ Launch
          /\ alive'
          /\ self'.schedule_enabled
          /\ self'.schedule_time_set ) =>
              self'.schedule_timer ]_vars

\* the program restarted inside the all-night window with the schedule
\* enabled in the file: the dimmer is Off and no schedule tick is running
C21_NoTickAfterRestart ==
    /\ alive
    /\ ev.op = "__init__"
    /\ self.schedule_enabled
    /\ self.schedule_time_set
    /\ in_schedule(CurrentTime, self.start_time, self.end_time)
    /\ ~ self.dimmer_active
    /\ deferred = <<>>
    /\ ~ self.schedule_timer

----------------------------------------------------------------------------
(* Opacity and tint colour: C22, C23, C24, C25                             *)

\* C22: whatever percent was requested, with or without a tint, the opacity
\* of every overlay is the one set_dimming computes for its clamped percent
\* and lies between 0.0 and 0.99
C22_OpacityInRange ==
    \A i \in DOMAIN self.overlays :
        /\ self.overlays[i]._current_opacity >= 0
        /\ self.overlays[i]._current_opacity <= 99 * (Unit \div 100)
        /\ self.overlays[i]._current_opacity < Unit
        /\ self.overlays[i].pct \in 0..95

\* the dimmer was switched On at a dim level of 120 loaded from the file:
\* the overlay works at 95 percent and its opacity is 0.99
C22_ClampedRequest ==
    /\ alive
    /\ self.dimmer_active
    /\ self.current_dim = 120
    /\ ~ self.blue_light_active
    /\ 0 \in DOMAIN self.overlays
    /\ self.overlays[0].pct = 95
    /\ self.overlays[0]._current_opacity = 990000

C24_TintedLinear ==
    \A i \in DOMAIN self.overlays :
        ( /\ self.overlays[i].driven
          /\ self.overlays[i].tint # NoTint
          /\ self.overlays[i].pct <= 12 ) =>
              self.overlays[i]._current_opacity * 100
                  = self.overlays[i].pct * Unit

\* the slider was dragged to 12 with the dimmer and the blue-light On
C24_TintedAtTwelve ==
    /\ alive
    /\ ev.op = "_on_dim_changed"
    /\ self.dimmer_active
    /\ self.blue_light_active
    /\ 0 \in DOMAIN self.overlays
    /\ self.overlays[0].tint # NoTint
    /\ self.overlays[0].pct = 12
    /\ self.overlays[0]._current_opacity = 120000

\* the colour of C25 for an intensity: white at 0, else red 255, green
\* max(200, trunc(255 - 0.55 i)), blue max(150, trunc(255 - 1.05 i)), the
\* truncations taken in hundredths
ClaimedTint(i) ==
    IF i = 0
    THEN <<255, 255, 255>>
    ELSE << 255,
            Max(200, (25500 - 55 * i) \div 100),
            Max(150, (25500 - 105 * i) \div 100) >>

\* C25: after the intensity slider moved with the blue-light filter On, the
\* tint of the primary overlay is the colour computed from the intensity:
\* white at 0, else (255, max(200, trunc(255 - 0.55 i)),
\* max(150, trunc(255 - 1.05 i))), which is (255, 200, 150) at 100
C25_TintColour ==
    ( /\ alive
      /\ ev.op = "_on_blue_intensity_changed"
      /\ self.blue_light_active ) =>
          /\ 0 \in DOMAIN self.overlays
          /\ self.overlays[0].tint = ClaimedTint(self.blue_intensity)
          /\ self.blue_intensity = 100 =>
                 self.overlays[0].tint = <<255, 200, 150>>
          /\ self.blue_intensity = 0 =>
                 self.overlays[0].tint = <<255, 255, 255>>

\* the intensity slider was dragged to 30 with the filter On: the tint is
\* (255, 238, 223), both channels truncated from 238.5 and 223.5
C25_TintAtThirty ==
    /\ alive
    /\ ev.op = "_on_blue_intensity_changed"
    /\ self.blue_light_active
    /\ self.blue_intensity = 30
    /\ 0 \in DOMAIN self.overlays
    /\ self.overlays[0].tint = <<255, 238, 223>>

----------------------------------------------------------------------------
(* The schedule window and the remaining time: C26, C27                    *)

\* the window of C26: start <= now <= end for a same-day window, now >= start
\* or now <= end for an overnight one
ClaimedInWindow(now, start, end) ==
    \/ start <= end /\ start <= now /\ now <= end
    \/ start > end /\ (now >= start \/ now <= end)

\* what the handler that ran last found: inside the window or outside
FoundInside ==
    CASE ev.op = "_apply_preset" -> self.tray_text = "would be active now"
      [] ev.op = "_apply_custom_schedule" ->
             self.tray_text = "would be active now"
      [] ev.op = "_update_time_remaining" ->
             self.time_remaining_label.text
                 \in {"Schedule ends in", "Schedule ending now"}
      [] ev.op = "_check_schedule" ->
             self.tray_message = "Schedule Auto-Started"
      [] OTHER -> FALSE

\* the handler that ran last tested the window
TestedWindow ==
    /\ alive
    /\ self.schedule_time_set
    /\ self.start_time # self.end_time
    /\ \/ ev.op = "_apply_preset"
       \/ ev.op = "_apply_custom_schedule" /\ self.tray_text # ""
       \/ ev.op = "_update_time_remaining"
       \/ ev.op = "_check_schedule" /\ self.schedule_enabled

\* C26: each of the four handlers that test the window (_check_schedule,
\* _apply_preset, _apply_custom_schedule, _update_time_remaining) finds the
\* clock inside it iff start <= now <= end (same day) or now >= start or
\* now <= end (overnight); 22:00-06:00 holds 23:30 and 02:00 and not 12:00
C26_InWindowTest ==
    TestedWindow =>
        /\ FoundInside <=>
               ClaimedInWindow(CurrentTime, self.start_time, self.end_time)
        /\ ( self.start_time = QTime(22, 0) /\ self.end_time = QTime(6, 0) ) =>
               /\ CurrentTime = QTime(23, 30) + 30 => FoundInside
               /\ CurrentTime = QTime(2, 0) + 30 => FoundInside
               /\ CurrentTime = QTime(12, 0) + 30 => ~ FoundInside

\* a tick of the enabled schedule 22:00-06:00 at 02:00:30 found the clock
\* inside the window
C26_OvernightAfterMidnight ==
    /\ alive
    /\ ev.op = "_check_schedule"
    /\ self.schedule_enabled
    /\ self.start_time = QTime(22, 0)
    /\ self.end_time = QTime(6, 0)
    /\ CurrentTime = QTime(2, 0) + 30
    /\ self.tray_message = "Schedule Auto-Started"
    /\ self.dimmer_active

\* the forward distance on the 24-hour clock from one time of day to another
ForwardDistance(from, to) ==
    (to - from + DaySeconds) % DaySeconds

\* the window's far edge: its end when now is inside, its start when outside
FarEdge(now, start, end) ==
    IF ClaimedInWindow(now, start, end) THEN end ELSE start

\* C27: the remaining time the schedule display computes is never negative,
\* is less than 24 hours and is the forward clock distance, in whole minutes,
\* from now to the window's end when now is inside the window and to its
\* start when outside, for same-day and overnight windows
C27_RemainingTime ==
    ( /\ alive
      /\ ev.op = "_update_time_remaining"
      /\ self.schedule_time_set
      /\ self.start_time # self.end_time ) =>
          /\ self.time_remaining_label.remaining_seconds >= 0
          /\ self.time_remaining_label.remaining_seconds < DaySeconds
          /\ self.time_remaining_label.remaining_seconds =
                 ForwardDistance(HourMinuteSeconds(CurrentTime),
                                 FarEdge(CurrentTime, self.start_time,
                                         self.end_time))

\* 06:00-18:00 shown at 20:00:30, after the window: it starts in 10 hours,
\* past midnight
C27_StartsTomorrow ==
    /\ alive
    /\ ev.op = "_update_time_remaining"
    /\ self.start_time = QTime(6, 0)
    /\ self.end_time = QTime(18, 0)
    /\ CurrentTime = QTime(20, 0) + 30
    /\ self.time_remaining_label.text = "Schedule starts in"
    /\ self.time_remaining_label.remaining_seconds = 10 * 3600

----------------------------------------------------------------------------
(* Dim levels, timers of disabled modes, schedule transitions: C28 - C30   *)

C29_TimersStopped ==
    [][ alive' =>
          /\ ( /\ ev'.op = "_toggle_blinker"
               /\ self.blinker_active /\ ~ self'.blinker_active ) =>
                   ~ self'.blinker_timer /\ ~ self'.blinker_countdown_timer
          /\ ( /\ ev'.op = "_check_timer"
               /\ self.timer_active /\ ~ self'.timer_active ) =>
                   ~ self'.timer_timer
          /\ ( /\ ev'.op = "_toggle_schedule_control"
               /\ self.schedule_enabled /\ ~ self'.schedule_enabled ) =>
                   ~ self'.schedule_timer ]_vars

\* the schedule was disabled by its button and its tick timer still runs
C29_TickTimerStillRunning ==
    /\ alive
    /\ ev.op = "_toggle_schedule_control"
    /\ self.tray_message = "Schedule Disabled"
    /\ ~ self.schedule_enabled
    /\ self.schedule_timer

\* the last thing that happened is that the dimmer was switched by hand,
\* with the schedule enabled and the clock outside (or inside) the window
ManualSinceTick(inside) ==
    /\ alive
    /\ self.schedule_enabled
    /\ self.schedule_time_set
    /\ ev.op = "_toggle_dimmer"
    /\ InWindow = inside

\* C30: the schedule acts on a transition only: with the clock standing at
\* one instant, a dimmer switched On by hand outside the window stays On at
\* the next tick, and a dimmer switched Off by hand inside the window stays
\* Off at the next tick
C30_TickKeepsManualChoice ==
    [][ ( /\ Tick_check_schedule
          /\ \/ ManualSinceTick(FALSE) /\ self.dimmer_active
             \/ ManualSinceTick(TRUE) /\ ~ self.dimmer_active ) =>
            self'.dimmer_active = self.dimmer_active
      ]_vars

\* the dimmer was On when a tick found the clock outside the window
\* 06:00-18:00 at 20:00:30, and the tick has switched it Off
C30_ManualOnUndone ==
    /\ alive
    /\ ev.op = "_check_schedule"
    /\ ev.was_active
    /\ self.schedule_enabled
    /\ self.start_time = QTime(6, 0)
    /\ self.end_time = QTime(18, 0)
    /\ CurrentTime = QTime(20, 0) + 30
    /\ ~ self.dimmer_active
    /\ self.tray_message = "Schedule Ended"

----------------------------------------------------------------------------
(* Rain items: C31                                                         *)

\* the animation of display i went through a tick of its timer in this step
RainTicked(i) ==
    /\ alive'
    /\ ev'.op = "_update_rain"
    /\ i \in DOMAIN self.rain_overlays
    /\ self.rain_overlays[i].rain_timer
    /\ self'.rain_overlays[i].rain_timer
    /\ self'.rain_overlays[i].rain_timer_due
           # self.rain_overlays[i].rain_timer_due

\* what one tick does to an item according to C31
ItemStepped(old, new) ==
    /\ new.speed = old.speed
    /\ IF old.y + old.speed > ScreenHeight
       THEN new.y = 0 - 50 /\ new.x = (old.x + 100) % ScreenWidth
       ELSE new.y = old.y + old.speed /\ new.x = old.x

\* C31: a running rain animation holds min(25, 50) items, never more than
\* 50; a tick of its timer removes and adds none, moves every item down by
\* its speed and puts an item that passed the bottom edge back at y = -50
\* with x = (x + 100) mod the display width, so no item stays below the
\* bottom edge
C31_RainItemsWrap ==
    [][ \A i \in 0..(MaxScreens - 1) :
          /\ ( i \in DOMAIN self'.rain_overlays
               /\ self'.rain_overlays[i].rain_timer ) =>
                 /\ Len(self'.rain_overlays[i].rain_items) = 25
                 /\ Len(self'.rain_overlays[i].rain_items) <= 50
                 /\ \A k \in 1..Len(self'.rain_overlays[i].rain_items) :
                        self'.rain_overlays[i].rain_items[k].y
                            <= ScreenHeight
                               + self'.rain_overlays[i].rain_items[k].speed
          /\ RainTicked(i) =>
                 /\ Len(self'.rain_overlays[i].rain_items)
                        = Len(self.rain_overlays[i].rain_items)
                 /\ \A k \in 1..Len(self.rain_overlays[i].rain_items) :
                        ItemStepped(self.rain_overlays[i].rain_items[k],
                                    self'.rain_overlays[i].rain_items[k])
      ]_vars

\* the fifth item of the primary display (speed 6, created at x = 45) has
\* passed the bottom edge and is back at the top, 100 to the right
C31_ItemPutBack ==
    /\ alive
    /\ ev.op = "_update_rain"
    /\ 0 \in DOMAIN self.rain_overlays
    /\ self.rain_overlays[0].rain_timer
    /\ Len(self.rain_overlays[0].rain_items) = 25
    /\ self.rain_overlays[0].rain_items[5].speed = 6
    /\ self.rain_overlays[0].rain_items[5].y = 0 - 50
    /\ self.rain_overlays[0].rain_items[5].x = 145

----------------------------------------------------------------------------
(* Opacity transitions: C32                                                *)

\* the overlay of display i shows the opacity last asked of it
Settled(i) ==
    \/ i \notin DOMAIN self.overlays
    \/ ~ self.overlays[i].driven
    \/ /\ self.overlays[i].in_flight = {}
       /\ self.overlays[i].windowOpacity
              = actual_opacity(self.overlays[i].pct, self.overlays[i].tint)

\* C32: an overlay has at most one opacity transition in flight, the one
\* towards the opacity of its last set_dimming request; _current_opacity is
\* always the opacity of the last request; and again and again the window
\* shows that opacity
C32_OneTransition ==
    /\ [](\A i \in DOMAIN self.overlays :
             /\ Cardinality(self.overlays[i].in_flight) <= 1
             /\ self.overlays[i].in_flight \subseteq
                    {self.overlays[i]._opacity_animation}
             /\ self.overlays[i].driven =>
                    /\ self.overlays[i]._opacity_animation
                           = actual_opacity(self.overlays[i].pct,
                                            self.overlays[i].tint)
                    /\ self.overlays[i]._current_opacity
                           = actual_opacity(self.overlays[i].pct,
                                            self.overlays[i].tint))
    /\ \A i \in 0..(MaxScreens - 1) : []<>Settled(i)

\* the slider went from 25 to 90 with the dimmer On and the transition to
\* the opacity of 90 percent has reached its end
C32_SecondRequestShown ==
    /\ alive
    /\ ev.op = "finished"
    /\ self.dimmer_active
    /\ ~ self.blue_light_active
    /\ 0 \in DOMAIN self.overlays
    /\ self.overlays[0].pct = 90
    /\ self.overlays[0].in_flight = {}
    /\ self.overlays[0].windowOpacity = actual_opacity(90, NoTint)
    /\ self.overlays[0]._current_opacity = actual_opacity(90, NoTint)

----------------------------------------------------------------------------
(* Blinker timer, second display, primary overlay: C33 - C36               *)

\* C33: whenever the blinker is active the interval timer of the blinker is
\* running, at the interval set: after enabling, after a change of the
\* interval, after each reminder and after a restart of the program
C33_BlinkerTimerRuns ==
    ( alive /\ self.blinker_active ) =>
        /\ self.blinker_timer
        /\ self.blinker_timer_interval
               = self.rain_interval_minutes * 60 * 1000

\* the program was restarted from a state file written with the blinker
\* active: the blinker is shown active and its interval timer is idle
C33_NoReminderAfterRestart ==
    /\ alive
    /\ ev.op = "__init__"
    /\ state_file.exists
    /\ state_file.blinker_active
    /\ self.blinker_active
    /\ ~ self.blinker_timer

\* C34: in every state of the running program the tint intensity of the
\* second display is an integer in 0..100, and ticking the second display's
\* blue-light checkbox computes the tint without an error
C34_SecondIntensityIsInteger ==
    /\ [](alive =>
             /\ ~ self.second_display_blue_intensity_is_widget
             /\ self.second_display_blue_intensity \in 0..IntensityMax)
    /\ [][Ev_second_display_blue_light_changed => alive']_vars

\* on a fresh start the second display was enabled and its blue-light
\* ticked: the state was saved and the process ended on the TypeError
C34_TintRaisedTypeError ==
    /\ ~ alive
    /\ ev.op = "_on_second_display_blue_light_changed"
    /\ state_file.exists
    /\ state_file.second_display_enabled
    /\ state_file.second_display_blue_light

----------------------------------------------------------------------------
(* Tint-only overlay, quick-timer fields, schedule switch: C37 - C39       *)

\* C37: with the dimmer Off and the blue-light filter On, the percent handed
\* to the primary overlay is trunc(intensity * 0.12), between 0 and 12 and 0 at
\* intensity 0, and the overlay's opacity is percent / 100, at most 0.12
C37_TintOnlyIsLinear ==
    ( /\ alive
      /\ ~ self.dimmer_active
      /\ self.blue_light_active
      /\ 0 \in DOMAIN self.overlays ) =>
          /\ self.overlays[0].tint # NoTint
          /\ self.overlays[0].pct * 100 <= self.blue_intensity * 12
          /\ (self.overlays[0].pct + 1) * 100 > self.blue_intensity * 12
          /\ self.overlays[0].pct \in 0..12
          /\ self.blue_intensity = 0 => self.overlays[0].pct = 0
          /\ self.overlays[0]._current_opacity * 100
                 = self.overlays[0].pct * Unit
          /\ self.overlays[0]._current_opacity * 100 <= 12 * Unit

\* the intensity slider was dragged to 100 with the dimmer Off and the
\* filter On: the overlay works at 12 percent, opacity 0.12
C37_TintOnlyAtFullIntensity ==
    /\ alive
    /\ ev.op = "_on_blue_intensity_changed"
    /\ ~ self.dimmer_active
    /\ self.blue_light_active
    /\ self.blue_intensity = 100
    /\ 0 \in DOMAIN self.overlays
    /\ self.overlays[0].pct = 12
    /\ self.overlays[0]._current_opacity = 120000

\* C38: between events the quick-timer fields agree: timer_active is true
\* exactly when a deadline is set, and while timer_active is true the poll
\* timer is running; a start while a quick timer is running leaves one
\* deadline, the one counted from now with the minutes just entered, and
\* one running poll timer.
C38_TimerFieldsConsistent ==
    /\ [](alive =>
            /\ self.timer_active <=> self.timer_end_time # NoTime
            /\ self.timer_active => self.timer_timer)
    /\ [][( /\ Ev_start_timer
            /\ self.timer_active
            /\ alive' ) =>
                /\ self'.timer_active
                /\ self'.timer_minutes \in TimerMinutes
                /\ self'.timer_end_time = Now + self'.timer_minutes * 60
                /\ self'.timer_timer]_vars

\* a five-minute timer was started over a running one after time had
\* passed (the dimmer was On before the start, which only a running quick
\* timer brings about when nothing else switches the dimmer): the deadline
\* is five minutes from now
C38_SecondTimerReplaced ==
    /\ alive
    /\ ev.op = "_start_timer"
    /\ ev.was_active
    /\ clock = 2
    /\ self.timer_active
    /\ self.timer_minutes = 5
    /\ self.timer_end_time = Now + 300
    /\ self.timer_timer
    /\ self.dimmer_active
\* C39: pressing the schedule button while the schedule is enabled sets
\* schedule_enabled to false and leaves the dimmer Off, whether it was Off
\* or had been turned On by the schedule, a quick timer or the user, and
\* leaves start_time, end_time, schedule_dim_value and schedule_time_set
\* as they were; pressing it while the schedule is disabled and a window is
\* set changes schedule_enabled (and the tray notification) and no other
\* attribute, the dimmer included.
C39_ScheduleSwitchFrame ==
    [][( /\ Ev_toggle_schedule_control
         /\ alive' ) =>
            /\ self.schedule_enabled =>
                  /\ ~ self'.schedule_enabled
                  /\ ~ self'.dimmer_active
                  /\ self'.start_time = self.start_time
                  /\ self'.end_time = self.end_time
                  /\ self'.schedule_dim_value = self.schedule_dim_value
                  /\ self'.schedule_time_set = self.schedule_time_set
            /\ ( /\ ~ self.schedule_enabled
                 /\ self.schedule_time_set ) =>
                  /\ self'.schedule_enabled
                  /\ self' = [self EXCEPT !.schedule_enabled = TRUE,
                                          !.tray_message = "Schedule Enabled",
                                          !.tray_text = ""]]_vars

\* the schedule was disabled while the dimmer was On and a quick timer was
\* running: the dimmer is Off, the window is still set
C39_DisabledDuringTimer ==
    /\ alive
    /\ ev.op = "_toggle_schedule_control"
    /\ ev.was_active
    /\ self.timer_active
    /\ ~ self.schedule_enabled
    /\ ~ self.dimmer_active
    /\ self.schedule_time_set
    /\ self.start_time # NoTime
    /\ self.tray_message = "Schedule Disabled"
====
